---------------------------- MODULE Spec2Model ----------------------------
(***************************************************************************)
(* A model of the HTTP server in src/src/main.rs: the accept loop, one     *)
(* task per connection run on a pool of worker threads, the request        *)
(* parser, the router, the handlers and the response builder, over a       *)
(* filesystem shared by all tasks.                                         *)
(*                                                                         *)
(* Text is modelled as the code holds it.  A byte buffer (Vec<u8>, [u8])   *)
(* is a sequence of numbers 0..255.  A Rust string (String, &str) is a     *)
(* sequence of Unicode code points; String::from_utf8_lossy and            *)
(* str::as_bytes convert between the two.  An Option is a sequence of      *)
(* length 0 (None) or 1 (Some).                                            *)
(***************************************************************************)
EXTENDS Integers, Sequences, FiniteSets

(***************************************************************************)
(* String literals of the program, as code points / UTF-8 bytes (all       *)
(* ASCII, so both coincide).                                               *)
(***************************************************************************)
CLRF == <<13, 10>>   \* '\r\n'
SepColon == <<58, 32>>   \* ': '
TokGET == <<71, 69, 84>>   \* 'GET'
TokPOST == <<80, 79, 83, 84>>   \* 'POST'
TokPUT == <<80, 85, 84>>   \* 'PUT'
TokDELETE == <<68, 69, 76, 69, 84, 69>>   \* 'DELETE'
TokV10 == <<72, 84, 84, 80, 47, 49, 46, 48>>   \* 'HTTP/1.0'
TokV11 == <<72, 84, 84, 80, 47, 49, 46, 49>>   \* 'HTTP/1.1'
KeyUserAgent == <<117, 115, 101, 114, 45, 97, 103, 101, 110, 116>>   \* 'user-agent'
KeyHost == <<104, 111, 115, 116>>   \* 'host'
KeyAccept == <<97, 99, 99, 101, 112, 116>>   \* 'accept'
KeyContentType == <<99, 111, 110, 116, 101, 110, 116, 45, 116, 121, 112, 101>>   \* 'content-type'
KeyContentLength == <<99, 111, 110, 116, 101, 110, 116, 45, 108, 101, 110, 103, 116, 104>>   \* 'content-length'
StrTextPlain == <<116, 101, 120, 116, 47, 112, 108, 97, 105, 110>>   \* 'text/plain'
StrOctetStream == <<97, 112, 112, 108, 105, 99, 97, 116, 105, 111, 110, 47, 111, 99, 116, 101, 116, 45, 115, 116, 114, 101, 97, 109>>   \* 'application/octet-stream'
PrefixEcho == <<47, 101, 99, 104, 111, 47>>   \* '/echo/'
PathUserAgent == <<47, 117, 115, 101, 114, 45, 97, 103, 101, 110, 116>>   \* '/user-agent'
PrefixFiles == <<47, 102, 105, 108, 101, 115, 47>>   \* '/files/'
HdrContentType == <<67, 111, 110, 116, 101, 110, 116, 45, 84, 121, 112, 101, 58, 32>>   \* 'Content-Type: '
HdrContentLength == <<67, 111, 110, 116, 101, 110, 116, 45, 76, 101, 110, 103, 116, 104, 58, 32>>   \* 'Content-Length: '
StatusPrefix == <<72, 84, 84, 80, 47, 49, 46, 49, 32>>   \* 'HTTP/1.1 '
ReasonOK == <<79, 75>>   \* 'OK'
ReasonCreated == <<67, 114, 101, 97, 116, 101, 100>>   \* 'Created'
ReasonBadRequest == <<66, 97, 100, 32, 82, 101, 113, 117, 101, 115, 116>>   \* 'Bad Request'
ReasonNotFound == <<78, 111, 116, 32, 70, 111, 117, 110, 100>>   \* 'Not Found'
ReasonConflict == <<67, 111, 110, 102, 108, 105, 99, 116>>   \* 'Conflict'
ReasonInternal == <<73, 110, 116, 101, 114, 110, 97, 108, 32, 83, 101, 114, 118, 101, 114, 32, 69, 114, 114, 111, 114>>   \* 'Internal Server Error'
MsgVersion == <<116, 104, 105, 115, 32, 115, 101, 114, 118, 101, 114, 32, 111, 110, 108, 121, 32, 115, 117, 112, 112, 111, 114, 116, 115, 32, 72, 84, 84, 80, 32, 118, 101, 114, 115, 105, 111, 110, 32, 49, 46, 49, 46>>   \* 'this server only supports HTTP version 1.1.'
MsgContentType == <<117, 110, 101, 120, 112, 101, 99, 116, 101, 100, 32, 99, 111, 110, 116, 101, 110, 116, 32, 116, 121, 112, 101>>   \* 'unexpected content type'
MsgExists == <<102, 105, 108, 101, 32, 97, 108, 114, 101, 97, 100, 121, 32, 101, 120, 105, 115, 116, 115, 46>>   \* 'file already exists.'
MsgWriteFailed == <<102, 97, 105, 108, 101, 100, 32, 116, 111, 32, 119, 114, 105, 116, 101, 32, 116, 111, 32, 102, 105, 108, 101, 46>>   \* 'failed to write to file.'
MsgCreateFailed == <<102, 97, 105, 108, 101, 100, 32, 116, 111, 32, 99, 114, 101, 97, 116, 101, 32, 102, 105, 108, 101, 46>>   \* 'failed to create file.'
MsgNoBody == <<78, 111, 32, 98, 111, 100, 121, 32, 112, 114, 111, 118, 105, 100, 101, 100>>   \* 'No body provided'
Slash == 47   \* the character "/"
PathRoot == <<47>>   \* "/"

(***************************************************************************)
(* Option values.                                                          *)
(***************************************************************************)
None == <<>>
Some(x) == <<x>>
IsSome(o) == Len(o) = 1
Unwrap(o) == o[1]

(***************************************************************************)
(* Helpers on finite sets of positions and on sequences.                   *)
(***************************************************************************)
SetMin(S) == CHOOSE x \in S : \A y \in S : x <= y

RECURSIVE SortedSeq(_)
SortedSeq(S) ==
    IF S = {} THEN <<>>
    ELSE LET m == SetMin(S) IN <<m>> \o SortedSeq(S \ {m})

\* s[a..b], empty when b < a
Slice(s, a, b) == IF b < a THEN <<>> ELSE SubSeq(s, a, b)

\* The positions at which pat occurs in s.
Occurrences(s, pat) ==
    {i \in 1..(Len(s) + 1 - Len(pat)) :
        /\ pat = <<>> \/ s[i] = pat[1]
        /\ \A k \in 2..Len(pat) : s[i + k - 1] = pat[k]}

\* str::starts_with
StartsWith(s, p) ==
    Len(p) <= Len(s) /\ \A k \in 1..Len(p) : s[k] = p[k]

(***************************************************************************)
(* String::from_utf8_lossy (line 203): every maximal invalid byte sequence *)
(* becomes U+FFFD, every valid sequence its code point.                    *)
(***************************************************************************)
ReplacementChar == 65533

ByteAt(s, i) == IF i <= Len(s) THEN s[i] ELSE 0

IsCont(b) == b >= 128 /\ b <= 191

\* <<code point, bytes consumed>> of the chunk of s starting at i
Utf8Chunk(s, i) ==
    LET b1 == s[i]
        b2 == ByteAt(s, i + 1)
        b3 == ByteAt(s, i + 2)
        b4 == ByteAt(s, i + 3)
        Bad(n) == <<ReplacementChar, n>>
    IN  IF b1 < 128 THEN <<b1, 1>>
        ELSE IF b1 >= 194 /\ b1 <= 223 THEN
            IF IsCont(b2) THEN <<((b1 - 192) * 64) + (b2 - 128), 2>> ELSE Bad(1)
        ELSE IF b1 >= 224 /\ b1 <= 239 THEN
            IF ~ (\/ b1 = 224 /\ b2 >= 160 /\ b2 <= 191
                  \/ b1 >= 225 /\ b1 <= 236 /\ IsCont(b2)
                  \/ b1 = 237 /\ b2 >= 128 /\ b2 <= 159
                  \/ b1 >= 238 /\ IsCont(b2))
            THEN Bad(1)
            ELSE IF ~ IsCont(b3) THEN Bad(2)
            ELSE <<((b1 - 224) * 4096) + ((b2 - 128) * 64) + (b3 - 128), 3>>
        ELSE IF b1 >= 240 /\ b1 <= 244 THEN
            IF ~ (\/ b1 = 240 /\ b2 >= 144 /\ b2 <= 191
                  \/ b1 >= 241 /\ b1 <= 243 /\ IsCont(b2)
                  \/ b1 = 244 /\ b2 >= 128 /\ b2 <= 143)
            THEN Bad(1)
            ELSE IF ~ IsCont(b3) THEN Bad(2)
            ELSE IF ~ IsCont(b4) THEN Bad(3)
            ELSE <<((b1 - 240) * 262144) + ((b2 - 128) * 4096)
                     + ((b3 - 128) * 64) + (b4 - 128), 4>>
        ELSE Bad(1)

\* a run of ASCII bytes is copied as it is; the chunk at the first other
\* byte is decoded or replaced
RECURSIVE DecodeFrom(_, _)
DecodeFrom(s, i) ==
    LET high == {k \in i..Len(s) : s[k] >= 128}
    IN  IF high = {} THEN Slice(s, i, Len(s))
        ELSE LET j == SetMin(high)
                 c == Utf8Chunk(s, j)
             IN Slice(s, i, j - 1) \o <<c[1]>> \o DecodeFrom(s, j + c[2])

from_utf8_lossy(bytes) == DecodeFrom(bytes, 1)

(***************************************************************************)
(* str::as_bytes / str::len: the UTF-8 encoding of a string.               *)
(***************************************************************************)
Utf8Char(c) ==
    IF c < 128 THEN <<c>>
    ELSE IF c < 2048 THEN <<192 + (c \div 64), 128 + (c % 64)>>
    ELSE IF c < 65536 THEN
        <<224 + (c \div 4096), 128 + ((c \div 64) % 64), 128 + (c % 64)>>
    ELSE <<240 + (c \div 262144), 128 + ((c \div 4096) % 64),
           128 + ((c \div 64) % 64), 128 + (c % 64)>>

RECURSIVE EncodeFrom(_, _)
EncodeFrom(s, i) ==
    LET high == {k \in i..Len(s) : s[k] >= 128}
    IN  IF high = {} THEN Slice(s, i, Len(s))
        ELSE LET j == SetMin(high)
             IN Slice(s, i, j - 1) \o Utf8Char(s[j]) \o EncodeFrom(s, j + 1)

as_bytes(str) == EncodeFrom(str, 1)

(***************************************************************************)
(* str::to_lowercase (lines 88, 109) follows Unicode.  The tables are those *)
(* of the standard library the code is built with (Unicode 17; the code    *)
(* needs File::create_new and so a library of Unicode 15 or later): the    *)
(* lowercase mappings of char::to_lowercase, and the properties Cased and  *)
(* Case_Ignorable that decide the lowercase of a capital sigma.            *)
(***************************************************************************)
\* <<first, last, step, lowercase of first>>: the characters first,
\* first + step, .. last map to the characters at the same distance from
\* the lowercase of first
LowerRanges ==
    {<<65, 90, 1, 97>>, <<192, 214, 1, 224>>, <<216, 222, 1, 248>>,
     <<256, 302, 2, 257>>, <<306, 310, 2, 307>>, <<313, 327, 2, 314>>,
     <<330, 374, 2, 331>>, <<376, 376, 1, 255>>, <<377, 381, 2, 378>>,
     <<385, 385, 1, 595>>, <<386, 388, 2, 387>>, <<390, 390, 1, 596>>,
     <<391, 391, 1, 392>>, <<393, 394, 1, 598>>, <<395, 395, 1, 396>>,
     <<398, 398, 1, 477>>, <<399, 399, 1, 601>>, <<400, 400, 1, 603>>,
     <<401, 401, 1, 402>>, <<403, 403, 1, 608>>, <<404, 404, 1, 611>>,
     <<406, 406, 1, 617>>, <<407, 407, 1, 616>>, <<408, 408, 1, 409>>,
     <<412, 412, 1, 623>>, <<413, 413, 1, 626>>, <<415, 415, 1, 629>>,
     <<416, 420, 2, 417>>, <<422, 422, 1, 640>>, <<423, 423, 1, 424>>,
     <<425, 425, 1, 643>>, <<428, 428, 1, 429>>, <<430, 430, 1, 648>>,
     <<431, 431, 1, 432>>, <<433, 434, 1, 650>>, <<435, 437, 2, 436>>,
     <<439, 439, 1, 658>>, <<440, 440, 1, 441>>, <<444, 444, 1, 445>>,
     <<452, 452, 1, 454>>, <<453, 453, 1, 454>>, <<455, 455, 1, 457>>,
     <<456, 456, 1, 457>>, <<458, 458, 1, 460>>, <<459, 475, 2, 460>>,
     <<478, 494, 2, 479>>, <<497, 497, 1, 499>>, <<498, 500, 2, 499>>,
     <<502, 502, 1, 405>>, <<503, 503, 1, 447>>, <<504, 542, 2, 505>>,
     <<544, 544, 1, 414>>, <<546, 562, 2, 547>>, <<570, 570, 1, 11365>>,
     <<571, 571, 1, 572>>, <<573, 573, 1, 410>>, <<574, 574, 1, 11366>>,
     <<577, 577, 1, 578>>, <<579, 579, 1, 384>>, <<580, 580, 1, 649>>,
     <<581, 581, 1, 652>>, <<582, 590, 2, 583>>, <<880, 882, 2, 881>>,
     <<886, 886, 1, 887>>, <<895, 895, 1, 1011>>, <<902, 902, 1, 940>>,
     <<904, 906, 1, 941>>, <<908, 908, 1, 972>>, <<910, 911, 1, 973>>,
     <<913, 929, 1, 945>>, <<931, 939, 1, 963>>, <<975, 975, 1, 983>>,
     <<984, 1006, 2, 985>>, <<1012, 1012, 1, 952>>, <<1015, 1015, 1, 1016>>,
     <<1017, 1017, 1, 1010>>, <<1018, 1018, 1, 1019>>,
     <<1021, 1023, 1, 891>>, <<1024, 1039, 1, 1104>>,
     <<1040, 1071, 1, 1072>>, <<1120, 1152, 2, 1121>>,
     <<1162, 1214, 2, 1163>>, <<1216, 1216, 1, 1231>>,
     <<1217, 1229, 2, 1218>>, <<1232, 1326, 2, 1233>>,
     <<1329, 1366, 1, 1377>>, <<4256, 4293, 1, 11520>>,
     <<4295, 4295, 1, 11559>>, <<4301, 4301, 1, 11565>>,
     <<5024, 5103, 1, 43888>>, <<5104, 5109, 1, 5112>>,
     <<7305, 7305, 1, 7306>>, <<7312, 7354, 1, 4304>>,
     <<7357, 7359, 1, 4349>>, <<7680, 7828, 2, 7681>>,
     <<7838, 7838, 1, 223>>, <<7840, 7934, 2, 7841>>,
     <<7944, 7951, 1, 7936>>, <<7960, 7965, 1, 7952>>,
     <<7976, 7983, 1, 7968>>, <<7992, 7999, 1, 7984>>,
     <<8008, 8013, 1, 8000>>, <<8025, 8031, 2, 8017>>,
     <<8040, 8047, 1, 8032>>, <<8072, 8079, 1, 8064>>,
     <<8088, 8095, 1, 8080>>, <<8104, 8111, 1, 8096>>,
     <<8120, 8121, 1, 8112>>, <<8122, 8123, 1, 8048>>,
     <<8124, 8124, 1, 8115>>, <<8136, 8139, 1, 8050>>,
     <<8140, 8140, 1, 8131>>, <<8152, 8153, 1, 8144>>,
     <<8154, 8155, 1, 8054>>, <<8168, 8169, 1, 8160>>,
     <<8170, 8171, 1, 8058>>, <<8172, 8172, 1, 8165>>,
     <<8184, 8185, 1, 8056>>, <<8186, 8187, 1, 8060>>,
     <<8188, 8188, 1, 8179>>, <<8486, 8486, 1, 969>>, <<8490, 8490, 1, 107>>,
     <<8491, 8491, 1, 229>>, <<8498, 8498, 1, 8526>>,
     <<8544, 8559, 1, 8560>>, <<8579, 8579, 1, 8580>>,
     <<9398, 9423, 1, 9424>>, <<11264, 11311, 1, 11312>>,
     <<11360, 11360, 1, 11361>>, <<11362, 11362, 1, 619>>,
     <<11363, 11363, 1, 7549>>, <<11364, 11364, 1, 637>>,
     <<11367, 11371, 2, 11368>>, <<11373, 11373, 1, 593>>,
     <<11374, 11374, 1, 625>>, <<11375, 11375, 1, 592>>,
     <<11376, 11376, 1, 594>>, <<11378, 11378, 1, 11379>>,
     <<11381, 11381, 1, 11382>>, <<11390, 11391, 1, 575>>,
     <<11392, 11490, 2, 11393>>, <<11499, 11501, 2, 11500>>,
     <<11506, 11506, 1, 11507>>, <<42560, 42604, 2, 42561>>,
     <<42624, 42650, 2, 42625>>, <<42786, 42798, 2, 42787>>,
     <<42802, 42862, 2, 42803>>, <<42873, 42875, 2, 42874>>,
     <<42877, 42877, 1, 7545>>, <<42878, 42886, 2, 42879>>,
     <<42891, 42891, 1, 42892>>, <<42893, 42893, 1, 613>>,
     <<42896, 42898, 2, 42897>>, <<42902, 42920, 2, 42903>>,
     <<42922, 42922, 1, 614>>, <<42923, 42923, 1, 604>>,
     <<42924, 42924, 1, 609>>, <<42925, 42925, 1, 620>>,
     <<42926, 42926, 1, 618>>, <<42928, 42928, 1, 670>>,
     <<42929, 42929, 1, 647>>, <<42930, 42930, 1, 669>>,
     <<42931, 42931, 1, 43859>>, <<42932, 42946, 2, 42933>>,
     <<42948, 42948, 1, 42900>>, <<42949, 42949, 1, 642>>,
     <<42950, 42950, 1, 7566>>, <<42951, 42953, 2, 42952>>,
     <<42955, 42955, 1, 612>>, <<42956, 42970, 2, 42957>>,
     <<42972, 42972, 1, 411>>, <<42997, 42997, 1, 42998>>,
     <<65313, 65338, 1, 65345>>, <<66560, 66599, 1, 66600>>,
     <<66736, 66771, 1, 66776>>, <<66928, 66938, 1, 66967>>,
     <<66940, 66954, 1, 66979>>, <<66956, 66962, 1, 66995>>,
     <<66964, 66965, 1, 67003>>, <<68736, 68786, 1, 68800>>,
     <<68944, 68965, 1, 68976>>, <<71840, 71871, 1, 71872>>,
     <<93760, 93791, 1, 93792>>, <<93856, 93880, 1, 93883>>,
     <<125184, 125217, 1, 125218>>}

\* <<first, last>>: the characters that are Cased
CasedRanges ==
    {<<65, 90>>, <<97, 122>>, <<170, 170>>, <<181, 181>>, <<186, 186>>,
     <<192, 214>>, <<216, 246>>, <<248, 442>>, <<444, 447>>, <<452, 659>>,
     <<662, 696>>, <<704, 705>>, <<736, 740>>, <<837, 837>>, <<880, 883>>,
     <<886, 887>>, <<890, 893>>, <<895, 895>>, <<902, 902>>, <<904, 906>>,
     <<908, 908>>, <<910, 929>>, <<931, 1013>>, <<1015, 1153>>,
     <<1162, 1327>>, <<1329, 1366>>, <<1376, 1416>>, <<4256, 4293>>,
     <<4295, 4295>>, <<4301, 4301>>, <<4304, 4346>>, <<4348, 4351>>,
     <<5024, 5109>>, <<5112, 5117>>, <<7296, 7306>>, <<7312, 7354>>,
     <<7357, 7359>>, <<7424, 7615>>, <<7680, 7957>>, <<7960, 7965>>,
     <<7968, 8005>>, <<8008, 8013>>, <<8016, 8023>>, <<8025, 8025>>,
     <<8027, 8027>>, <<8029, 8029>>, <<8031, 8061>>, <<8064, 8116>>,
     <<8118, 8124>>, <<8126, 8126>>, <<8130, 8132>>, <<8134, 8140>>,
     <<8144, 8147>>, <<8150, 8155>>, <<8160, 8172>>, <<8178, 8180>>,
     <<8182, 8188>>, <<8305, 8305>>, <<8319, 8319>>, <<8336, 8348>>,
     <<8450, 8450>>, <<8455, 8455>>, <<8458, 8467>>, <<8469, 8469>>,
     <<8473, 8477>>, <<8484, 8484>>, <<8486, 8486>>, <<8488, 8488>>,
     <<8490, 8493>>, <<8495, 8500>>, <<8505, 8505>>, <<8508, 8511>>,
     <<8517, 8521>>, <<8526, 8526>>, <<8544, 8575>>, <<8579, 8580>>,
     <<9398, 9449>>, <<11264, 11492>>, <<11499, 11502>>, <<11506, 11507>>,
     <<11520, 11557>>, <<11559, 11559>>, <<11565, 11565>>, <<42560, 42605>>,
     <<42624, 42653>>, <<42786, 42887>>, <<42891, 42894>>, <<42896, 42972>>,
     <<42993, 42998>>, <<43000, 43002>>, <<43824, 43866>>, <<43868, 43881>>,
     <<43888, 43967>>, <<64256, 64262>>, <<64275, 64279>>, <<65313, 65338>>,
     <<65345, 65370>>, <<66560, 66639>>, <<66736, 66771>>, <<66776, 66811>>,
     <<66928, 66938>>, <<66940, 66954>>, <<66956, 66962>>, <<66964, 66965>>,
     <<66967, 66977>>, <<66979, 66993>>, <<66995, 67001>>, <<67003, 67004>>,
     <<67456, 67456>>, <<67459, 67461>>, <<67463, 67504>>, <<67506, 67514>>,
     <<68736, 68786>>, <<68800, 68850>>, <<68944, 68965>>, <<68976, 68997>>,
     <<71840, 71903>>, <<93760, 93823>>, <<93856, 93880>>, <<93883, 93907>>,
     <<119808, 119892>>, <<119894, 119964>>, <<119966, 119967>>,
     <<119970, 119970>>, <<119973, 119974>>, <<119977, 119980>>,
     <<119982, 119993>>, <<119995, 119995>>, <<119997, 120003>>,
     <<120005, 120069>>, <<120071, 120074>>, <<120077, 120084>>,
     <<120086, 120092>>, <<120094, 120121>>, <<120123, 120126>>,
     <<120128, 120132>>, <<120134, 120134>>, <<120138, 120144>>,
     <<120146, 120485>>, <<120488, 120512>>, <<120514, 120538>>,
     <<120540, 120570>>, <<120572, 120596>>, <<120598, 120628>>,
     <<120630, 120654>>, <<120656, 120686>>, <<120688, 120712>>,
     <<120714, 120744>>, <<120746, 120770>>, <<120772, 120779>>,
     <<122624, 122633>>, <<122635, 122654>>, <<122661, 122666>>,
     <<122928, 122989>>, <<125184, 125251>>, <<127280, 127305>>,
     <<127312, 127337>>, <<127344, 127369>>}

\* <<first, last>>: the characters that are Case_Ignorable
CaseIgnorableRanges ==
    {<<39, 39>>, <<46, 46>>, <<58, 58>>, <<94, 94>>, <<96, 96>>,
     <<168, 168>>, <<173, 173>>, <<175, 175>>, <<180, 180>>, <<183, 184>>,
     <<688, 879>>, <<884, 885>>, <<890, 890>>, <<900, 901>>, <<903, 903>>,
     <<1155, 1161>>, <<1369, 1369>>, <<1375, 1375>>, <<1425, 1469>>,
     <<1471, 1471>>, <<1473, 1474>>, <<1476, 1477>>, <<1479, 1479>>,
     <<1524, 1524>>, <<1536, 1541>>, <<1552, 1562>>, <<1564, 1564>>,
     <<1600, 1600>>, <<1611, 1631>>, <<1648, 1648>>, <<1750, 1757>>,
     <<1759, 1768>>, <<1770, 1773>>, <<1807, 1807>>, <<1809, 1809>>,
     <<1840, 1866>>, <<1958, 1968>>, <<2027, 2037>>, <<2042, 2042>>,
     <<2045, 2045>>, <<2070, 2093>>, <<2137, 2139>>, <<2184, 2184>>,
     <<2192, 2193>>, <<2199, 2207>>, <<2249, 2306>>, <<2362, 2362>>,
     <<2364, 2364>>, <<2369, 2376>>, <<2381, 2381>>, <<2385, 2391>>,
     <<2402, 2403>>, <<2417, 2417>>, <<2433, 2433>>, <<2492, 2492>>,
     <<2497, 2500>>, <<2509, 2509>>, <<2530, 2531>>, <<2558, 2558>>,
     <<2561, 2562>>, <<2620, 2620>>, <<2625, 2626>>, <<2631, 2632>>,
     <<2635, 2637>>, <<2641, 2641>>, <<2672, 2673>>, <<2677, 2677>>,
     <<2689, 2690>>, <<2748, 2748>>, <<2753, 2757>>, <<2759, 2760>>,
     <<2765, 2765>>, <<2786, 2787>>, <<2810, 2815>>, <<2817, 2817>>,
     <<2876, 2876>>, <<2879, 2879>>, <<2881, 2884>>, <<2893, 2893>>,
     <<2901, 2902>>, <<2914, 2915>>, <<2946, 2946>>, <<3008, 3008>>,
     <<3021, 3021>>, <<3072, 3072>>, <<3076, 3076>>, <<3132, 3132>>,
     <<3134, 3136>>, <<3142, 3144>>, <<3146, 3149>>, <<3157, 3158>>,
     <<3170, 3171>>, <<3201, 3201>>, <<3260, 3260>>, <<3263, 3263>>,
     <<3270, 3270>>, <<3276, 3277>>, <<3298, 3299>>, <<3328, 3329>>,
     <<3387, 3388>>, <<3393, 3396>>, <<3405, 3405>>, <<3426, 3427>>,
     <<3457, 3457>>, <<3530, 3530>>, <<3538, 3540>>, <<3542, 3542>>,
     <<3633, 3633>>, <<3636, 3642>>, <<3654, 3662>>, <<3761, 3761>>,
     <<3764, 3772>>, <<3782, 3782>>, <<3784, 3790>>, <<3864, 3865>>,
     <<3893, 3893>>, <<3895, 3895>>, <<3897, 3897>>, <<3953, 3966>>,
     <<3968, 3972>>, <<3974, 3975>>, <<3981, 3991>>, <<3993, 4028>>,
     <<4038, 4038>>, <<4141, 4144>>, <<4146, 4151>>, <<4153, 4154>>,
     <<4157, 4158>>, <<4184, 4185>>, <<4190, 4192>>, <<4209, 4212>>,
     <<4226, 4226>>, <<4229, 4230>>, <<4237, 4237>>, <<4253, 4253>>,
     <<4348, 4348>>, <<4957, 4959>>, <<5906, 5908>>, <<5938, 5939>>,
     <<5970, 5971>>, <<6002, 6003>>, <<6068, 6069>>, <<6071, 6077>>,
     <<6086, 6086>>, <<6089, 6099>>, <<6103, 6103>>, <<6109, 6109>>,
     <<6155, 6159>>, <<6211, 6211>>, <<6277, 6278>>, <<6313, 6313>>,
     <<6432, 6434>>, <<6439, 6440>>, <<6450, 6450>>, <<6457, 6459>>,
     <<6679, 6680>>, <<6683, 6683>>, <<6742, 6742>>, <<6744, 6750>>,
     <<6752, 6752>>, <<6754, 6754>>, <<6757, 6764>>, <<6771, 6780>>,
     <<6783, 6783>>, <<6823, 6823>>, <<6832, 6877>>, <<6880, 6891>>,
     <<6912, 6915>>, <<6964, 6964>>, <<6966, 6970>>, <<6972, 6972>>,
     <<6978, 6978>>, <<7019, 7027>>, <<7040, 7041>>, <<7074, 7077>>,
     <<7080, 7081>>, <<7083, 7085>>, <<7142, 7142>>, <<7144, 7145>>,
     <<7149, 7149>>, <<7151, 7153>>, <<7212, 7219>>, <<7222, 7223>>,
     <<7288, 7293>>, <<7376, 7378>>, <<7380, 7392>>, <<7394, 7400>>,
     <<7405, 7405>>, <<7412, 7412>>, <<7416, 7417>>, <<7468, 7530>>,
     <<7544, 7544>>, <<7579, 7679>>, <<8125, 8125>>, <<8127, 8129>>,
     <<8141, 8143>>, <<8157, 8159>>, <<8173, 8175>>, <<8189, 8190>>,
     <<8203, 8207>>, <<8216, 8217>>, <<8228, 8228>>, <<8231, 8231>>,
     <<8234, 8238>>, <<8288, 8292>>, <<8294, 8303>>, <<8305, 8305>>,
     <<8319, 8319>>, <<8336, 8348>>, <<8400, 8432>>, <<11388, 11389>>,
     <<11503, 11505>>, <<11631, 11631>>, <<11647, 11647>>, <<11744, 11775>>,
     <<11823, 11823>>, <<12293, 12293>>, <<12330, 12333>>, <<12337, 12341>>,
     <<12347, 12347>>, <<12441, 12446>>, <<12540, 12542>>, <<40981, 40981>>,
     <<42232, 42237>>, <<42508, 42508>>, <<42607, 42610>>, <<42612, 42621>>,
     <<42623, 42623>>, <<42652, 42655>>, <<42736, 42737>>, <<42752, 42785>>,
     <<42864, 42864>>, <<42888, 42890>>, <<42993, 42996>>, <<43000, 43001>>,
     <<43010, 43010>>, <<43014, 43014>>, <<43019, 43019>>, <<43045, 43046>>,
     <<43052, 43052>>, <<43204, 43205>>, <<43232, 43249>>, <<43263, 43263>>,
     <<43302, 43309>>, <<43335, 43345>>, <<43392, 43394>>, <<43443, 43443>>,
     <<43446, 43449>>, <<43452, 43453>>, <<43471, 43471>>, <<43493, 43494>>,
     <<43561, 43566>>, <<43569, 43570>>, <<43573, 43574>>, <<43587, 43587>>,
     <<43596, 43596>>, <<43632, 43632>>, <<43644, 43644>>, <<43696, 43696>>,
     <<43698, 43700>>, <<43703, 43704>>, <<43710, 43711>>, <<43713, 43713>>,
     <<43741, 43741>>, <<43756, 43757>>, <<43763, 43764>>, <<43766, 43766>>,
     <<43867, 43871>>, <<43881, 43883>>, <<44005, 44005>>, <<44008, 44008>>,
     <<44013, 44013>>, <<64286, 64286>>, <<64434, 64450>>, <<65024, 65039>>,
     <<65043, 65043>>, <<65056, 65071>>, <<65106, 65106>>, <<65109, 65109>>,
     <<65279, 65279>>, <<65287, 65287>>, <<65294, 65294>>, <<65306, 65306>>,
     <<65342, 65342>>, <<65344, 65344>>, <<65392, 65392>>, <<65438, 65439>>,
     <<65507, 65507>>, <<65529, 65531>>, <<66045, 66045>>, <<66272, 66272>>,
     <<66422, 66426>>, <<67456, 67461>>, <<67463, 67504>>, <<67506, 67514>>,
     <<68097, 68099>>, <<68101, 68102>>, <<68108, 68111>>, <<68152, 68154>>,
     <<68159, 68159>>, <<68325, 68326>>, <<68900, 68903>>, <<68942, 68942>>,
     <<68969, 68973>>, <<68975, 68975>>, <<69291, 69292>>, <<69317, 69317>>,
     <<69370, 69375>>, <<69446, 69456>>, <<69506, 69509>>, <<69633, 69633>>,
     <<69688, 69702>>, <<69744, 69744>>, <<69747, 69748>>, <<69759, 69761>>,
     <<69811, 69814>>, <<69817, 69818>>, <<69821, 69821>>, <<69826, 69826>>,
     <<69837, 69837>>, <<69888, 69890>>, <<69927, 69931>>, <<69933, 69940>>,
     <<70003, 70003>>, <<70016, 70017>>, <<70070, 70078>>, <<70089, 70092>>,
     <<70095, 70095>>, <<70191, 70193>>, <<70196, 70196>>, <<70198, 70199>>,
     <<70206, 70206>>, <<70209, 70209>>, <<70367, 70367>>, <<70371, 70378>>,
     <<70400, 70401>>, <<70459, 70460>>, <<70464, 70464>>, <<70502, 70508>>,
     <<70512, 70516>>, <<70587, 70592>>, <<70606, 70606>>, <<70608, 70608>>,
     <<70610, 70610>>, <<70625, 70626>>, <<70712, 70719>>, <<70722, 70724>>,
     <<70726, 70726>>, <<70750, 70750>>, <<70835, 70840>>, <<70842, 70842>>,
     <<70847, 70848>>, <<70850, 70851>>, <<71090, 71093>>, <<71100, 71101>>,
     <<71103, 71104>>, <<71132, 71133>>, <<71219, 71226>>, <<71229, 71229>>,
     <<71231, 71232>>, <<71339, 71339>>, <<71341, 71341>>, <<71344, 71349>>,
     <<71351, 71351>>, <<71453, 71453>>, <<71455, 71455>>, <<71458, 71461>>,
     <<71463, 71467>>, <<71727, 71735>>, <<71737, 71738>>, <<71995, 71996>>,
     <<71998, 71998>>, <<72003, 72003>>, <<72148, 72151>>, <<72154, 72155>>,
     <<72160, 72160>>, <<72193, 72202>>, <<72243, 72248>>, <<72251, 72254>>,
     <<72263, 72263>>, <<72273, 72278>>, <<72281, 72283>>, <<72330, 72342>>,
     <<72344, 72345>>, <<72544, 72544>>, <<72546, 72548>>, <<72550, 72550>>,
     <<72752, 72758>>, <<72760, 72765>>, <<72767, 72767>>, <<72850, 72871>>,
     <<72874, 72880>>, <<72882, 72883>>, <<72885, 72886>>, <<73009, 73014>>,
     <<73018, 73018>>, <<73020, 73021>>, <<73023, 73029>>, <<73031, 73031>>,
     <<73104, 73105>>, <<73109, 73109>>, <<73111, 73111>>, <<73177, 73177>>,
     <<73459, 73460>>, <<73472, 73473>>, <<73526, 73530>>, <<73536, 73536>>,
     <<73538, 73538>>, <<73562, 73562>>, <<78896, 78912>>, <<78919, 78933>>,
     <<90398, 90409>>, <<90413, 90415>>, <<92912, 92916>>, <<92976, 92982>>,
     <<92992, 92995>>, <<93504, 93506>>, <<93547, 93548>>, <<94031, 94031>>,
     <<94095, 94111>>, <<94176, 94177>>, <<94179, 94180>>, <<94194, 94195>>,
     <<110576, 110579>>, <<110581, 110587>>, <<110589, 110590>>,
     <<113821, 113822>>, <<113824, 113827>>, <<118528, 118573>>,
     <<118576, 118598>>, <<119143, 119145>>, <<119155, 119170>>,
     <<119173, 119179>>, <<119210, 119213>>, <<119362, 119364>>,
     <<121344, 121398>>, <<121403, 121452>>, <<121461, 121461>>,
     <<121476, 121476>>, <<121499, 121503>>, <<121505, 121519>>,
     <<122880, 122886>>, <<122888, 122904>>, <<122907, 122913>>,
     <<122915, 122916>>, <<122918, 122922>>, <<122928, 122989>>,
     <<123023, 123023>>, <<123184, 123197>>, <<123566, 123566>>,
     <<123628, 123631>>, <<124139, 124143>>, <<124398, 124399>>,
     <<124643, 124643>>, <<124646, 124646>>, <<124654, 124655>>,
     <<124661, 124661>>, <<124671, 124671>>, <<125136, 125142>>,
     <<125252, 125259>>, <<127995, 127999>>, <<917505, 917505>>,
     <<917536, 917631>>, <<917760, 917999>>}

InRanges(c, ranges) == \E r \in ranges : c >= r[1] /\ c <= r[2]

Cased(c) == InRanges(c, CasedRanges)
Case_Ignorable(c) == InRanges(c, CaseIgnorableRanges)

\* char::to_lowercase: the characters a character maps to.  U+0130 is the
\* one character with a lowercase of more than one character.
LowerChar(c) ==
    IF c = 304 THEN <<105, 775>>
    ELSE LET hit == {r \in LowerRanges :
                        c >= r[1] /\ c <= r[2] /\ (c - r[1]) % r[3] = 0}
         IN  IF hit = {} THEN <<c>>
             ELSE LET r == CHOOSE r \in hit : TRUE IN <<r[4] + (c - r[1])>>

\* the first character of s[i], s[i + d], s[i + 2d], .. that is not
\* Case_Ignorable is there and is Cased (d is 1 or -1)
RECURSIVE case_ignorable_then_cased(_, _, _)
case_ignorable_then_cased(s, i, d) ==
    IF i < 1 \/ i > Len(s) THEN FALSE
    ELSE IF Case_Ignorable(s[i])
        THEN case_ignorable_then_cased(s, i + d, d)
    ELSE Cased(s[i])

\* a capital sigma at the end of a word maps to the final small sigma
map_uppercase_sigma(from, i) ==
    IF /\ case_ignorable_then_cased(from, i - 1, -1)
       /\ ~ case_ignorable_then_cased(from, i + 1, 1)
    THEN 962 ELSE 963

\* an ASCII string, lowered
AsciiLower(s) ==
    <<>> \o [k \in 1..Len(s) |->
                IF s[k] >= 65 /\ s[k] <= 90 THEN s[k] + 32 ELSE s[k]]

\* runs of ASCII characters are lowered as such, every other character by
\* its mapping
RECURSIVE LowerFrom(_, _)
LowerFrom(s, i) ==
    LET high == {k \in i..Len(s) : s[k] >= 128}
    IN  IF high = {} THEN AsciiLower(Slice(s, i, Len(s)))
        ELSE LET j == SetMin(high)
             IN  AsciiLower(Slice(s, i, j - 1))
                     \o (IF s[j] = 931 THEN <<map_uppercase_sigma(s, j)>>
                         ELSE LowerChar(s[j]))
                     \o LowerFrom(s, j + 1)

to_lowercase(s) == LowerFrom(s, 1)

(***************************************************************************)
(* char::is_whitespace, str::trim, str::split, str::lines,                 *)
(* str::split_whitespace, str::split_once, join.                           *)
(***************************************************************************)
IsWhitespace(c) ==
    \/ c >= 9 /\ c <= 13
    \/ c \in {32, 133, 160, 5760, 8232, 8233, 8239, 8287, 12288}
    \/ c >= 8192 /\ c <= 8202

RECURSIVE TrimStart(_)
TrimStart(s) ==
    IF s # <<>> /\ IsWhitespace(Head(s)) THEN TrimStart(Tail(s)) ELSE s

RECURSIVE TrimEnd(_)
TrimEnd(s) ==
    IF s # <<>> /\ IsWhitespace(s[Len(s)])
    THEN TrimEnd(SubSeq(s, 1, Len(s) - 1)) ELSE s

trim(s) == TrimEnd(TrimStart(s))

\* str::split(pat): the pieces between the non-overlapping occurrences of
\* pat, found from the left.
RECURSIVE SplitFrom(_, _, _, _)
SplitFrom(s, pat, from, occ) ==
    LET rest == {i \in occ : i >= from}
    IN  IF rest = {} THEN <<Slice(s, from, Len(s))>>
        ELSE LET m == SetMin(rest)
             IN <<Slice(s, from, m - 1)>>
                    \o SplitFrom(s, pat, m + Len(pat), rest)

split(s, pat) == SplitFrom(s, pat, 1, Occurrences(s, pat))

\* str::lines: split after every "\n"; a line that ended in "\n" loses it
\* and then one "\r" before it; a last line without "\n" is kept as it is.
RECURSIVE LinesFrom(_, _, _)
LinesFrom(s, from, nl) ==
    IF from > Len(s) THEN <<>>
    ELSE LET rest == {i \in nl : i >= from}
         IN IF rest = {} THEN <<Slice(s, from, Len(s))>>
            ELSE LET m == SetMin(rest)
                     e == IF m > from /\ s[m - 1] = 13 THEN m - 2 ELSE m - 1
                 IN <<Slice(s, from, e)>> \o LinesFrom(s, m + 1, rest)

lines(s) == LinesFrom(s, 1, {i \in 1..Len(s) : s[i] = 10})

\* str::split_whitespace: the maximal runs of non-whitespace characters.
split_whitespace(s) ==
    LET starts == {i \in 1..Len(s) :
                     ~ IsWhitespace(s[i]) /\ (i = 1 \/ IsWhitespace(s[i - 1]))}
        ends == {i \in 1..Len(s) :
                     ~ IsWhitespace(s[i])
                     /\ (i = Len(s) \/ IsWhitespace(s[i + 1]))}
        st == SortedSeq(starts)
        en == SortedSeq(ends)
    IN  [k \in 1..Len(st) |-> SubSeq(s, st[k], en[k])]

\* str::split_once(pat): Some(<<before, after>>) at the first occurrence.
split_once(s, pat) ==
    LET occ == Occurrences(s, pat)
    IN  IF occ = {} THEN None
        ELSE LET m == SetMin(occ)
             IN Some(<<Slice(s, 1, m - 1), Slice(s, m + Len(pat), Len(s))>>)

\* [&str]::join(sep)
RECURSIVE join(_, _)
join(parts, sep) ==
    IF parts = <<>> THEN <<>>
    ELSE IF Len(parts) = 1 THEN parts[1]
    ELSE parts[1] \o sep \o join(Tail(parts), sep)

\* Iterator::skip(n)
skip(parts, n) == Slice(parts, n + 1, Len(parts))

\* usize::to_string
RECURSIVE to_string(_)
to_string(n) ==
    IF n < 10 THEN <<48 + n>> ELSE to_string(n \div 10) \o <<48 + (n % 10)>>

(***************************************************************************)
(* Program constants and configuration.                                    *)
(***************************************************************************)
\* the size of raw_request
BufSize == 1024

\* env::args()[2], the storage root the server was started with: "/tmp/"
StorageRoot == <<47, 116, 109, 112, 47>>

(***************************************************************************)
(* parse_request_line: Some([method, path, version]) or None.              *)
(***************************************************************************)
\* method tokens matched in any case
MethodOfTokenAnyCase(tok) ==
    IF to_lowercase(tok) = to_lowercase(TokGET) THEN Some("GET")
    ELSE IF to_lowercase(tok) = to_lowercase(TokPOST) THEN Some("POST")
    ELSE IF to_lowercase(tok) = to_lowercase(TokPUT) THEN Some("PUT")
    ELSE IF to_lowercase(tok) = to_lowercase(TokDELETE) THEN Some("DELETE")
    ELSE None

MethodOfToken(tok) ==
    IF tok = TokGET THEN Some("GET")
    ELSE IF tok = TokPOST THEN Some("POST")
    ELSE IF tok = TokPUT THEN Some("PUT")
    ELSE IF tok = TokDELETE THEN Some("DELETE")
    ELSE None

VersionOfToken(tok) ==
    IF tok = TokV10 THEN Some("V1_0")
    ELSE IF tok = TokV11 THEN Some("V1_1")
    ELSE None

parse_request_line(request_line) ==
    LET parts == split_whitespace(request_line)
    IN  IF Len(parts) = 3
        THEN LET method == MethodOfToken(parts[1])
                 version == VersionOfToken(parts[3])
             IN IF ~ IsSome(method) THEN None
                ELSE IF ~ IsSome(version) THEN None
                ELSE Some([method |-> Unwrap(method), path |-> parts[2],
                           version |-> Unwrap(version)])
        ELSE None

(***************************************************************************)
(* HttpRequestHeaders, ContentType, HttpRequestHeaderParser.               *)
(***************************************************************************)
HttpRequestHeaders_from_str(header) ==
    LET h == to_lowercase(header)
    IN  IF h = KeyUserAgent THEN Some("UserAgent")
        ELSE IF h = KeyHost THEN Some("Host")
        ELSE IF h = KeyAccept THEN Some("Accept")
        ELSE IF h = KeyContentType THEN Some("ContentType")
        ELSE IF h = KeyContentLength THEN Some("ContentLength")
        ELSE None

TextPlain == [tag |-> "TextPlain", s |-> <<>>]
ApplicationOctetStream == [tag |-> "ApplicationOctetStream", s |-> <<>>]

ContentType_from_str(content_type) ==
    LET other == to_lowercase(content_type)
    IN  IF other = StrTextPlain THEN TextPlain
        ELSE IF other = StrOctetStream THEN ApplicationOctetStream
        ELSE [tag |-> "Other", s |-> other]

\* HttpRequestHeaderParser::parse: the (header, value) pairs pushed, in order
RECURSIVE HeaderParser_parse(_)
HeaderParser_parse(header_lines) ==
    IF header_lines = <<>> THEN <<>>
    ELSE LET line == Head(header_lines)
             kv == split_once(line, SepColon)
             rest == HeaderParser_parse(Tail(header_lines))
         IN IF IsSome(kv)
            THEN LET header == HttpRequestHeaders_from_str(Unwrap(kv)[1])
                 IN IF IsSome(header)
                    THEN <<<<Unwrap(header), trim(Unwrap(kv)[2])>>>> \o rest
                    ELSE rest
            ELSE rest

\* the last occurrence in place of the first
get_last_header_value(headers, header) ==
    LET hits == {k \in 1..Len(headers) : headers[k][1] = header}
    IN  IF hits = {} THEN None
        ELSE Some(headers[CHOOSE k \in hits : \A m \in hits : m <= k][2])

get_header_value(headers, header) ==
    LET hits == {k \in 1..Len(headers) : headers[k][1] = header}
    IN  IF hits = {} THEN None ELSE Some(headers[SetMin(hits)][2])

get_content_type(headers) ==
    LET ct == get_header_value(headers, "ContentType")
    IN  IF IsSome(ct) THEN Some(ContentType_from_str(Unwrap(ct))) ELSE None

AnyContentType(headers, content_type) ==
    IsSome(get_content_type(headers))

is_content_type(headers, content_type) ==
    LET ct == get_content_type(headers)
    IN  IF IsSome(ct) THEN Unwrap(ct) = content_type ELSE FALSE

(***************************************************************************)
(* The response builder.  A response is the arguments of the format! that  *)
(* writes it; Wire gives the bytes on the stream.                          *)
(***************************************************************************)
Response(code, reason, headers, body) ==
    [code |-> code, reason |-> reason,
     headers |-> IF IsSome(headers) THEN as_bytes(Unwrap(headers)) ELSE <<>>,
     body |-> IF IsSome(body) THEN Unwrap(body) ELSE <<>>]

Wire(r) ==
    StatusPrefix \o to_string(r.code) \o <<32>> \o r.reason \o CLRF
        \o r.headers \o CLRF \o r.body

\* HttpResponseHeaderBuilder::new().add(ContentType, ..).add(ContentLength, ..)
ResponseHeader(content_type, length) ==
    HdrContentType \o content_type \o CLRF
        \o HdrContentLength \o to_string(length) \o CLRF

\* the body arguments are the bytes of the Option<String> passed
respond_ok(headers, body) == Response(200, ReasonOK, headers, body)
respond_not_found(headers, body) == Response(404, ReasonNotFound, headers, body)
respond_created(headers, body) == Response(201, ReasonCreated, headers, body)
\* a seventh status line
respond_gone(headers, body) == Response(410, ReasonConflict, headers, body)

respond_conflict(headers, body) == Response(409, ReasonConflict, headers, body)
respond_internal_server_error(headers, body) ==
    Response(500, ReasonInternal, headers, body)
respond_bad_request(headers, body) ==
    Response(400, ReasonBadRequest, headers, body)

respond_string_body(body, content_type) ==
    LET header == ResponseHeader(
                      IF IsSome(content_type) THEN Unwrap(content_type)
                      ELSE StrTextPlain,
                      Len(as_bytes(body)))
    IN  respond_ok(Some(header), Some(as_bytes(body)))

respond_byte_body(body, content_type) ==
    LET header == ResponseHeader(
                      IF IsSome(content_type) THEN Unwrap(content_type)
                      ELSE StrTextPlain,
                      Len(body))
    IN  Response(200, ReasonOK, Some(header), Some(body))

(***************************************************************************)
(* handle_connection, up to the dispatch.                                  *)
(***************************************************************************)
\* raw_request after stream.read: the bytes received, then the zero fill
ReadBuffer(sent) ==
    SubSeq(sent \o [k \in 1..BufSize |-> 0], 1, BufSize)

\* parts: the lossily decoded buffer split at "\r\n\r\n"
RequestParts(raw_request) ==
    split(from_utf8_lossy(raw_request), CLRF \o CLRF)

\* lines.next().unwrap_or("")
RequestLine(parts) ==
    LET ls == lines(parts[1]) IN IF ls = <<>> THEN <<>> ELSE Head(ls)

\* lines.collect() after the request line
HeaderLines(parts) ==
    LET ls == lines(parts[1]) IN IF ls = <<>> THEN <<>> ELSE Tail(ls)

\* body: Some(parts[1].as_bytes().to_vec()) when parts.len() > 1
RequestBody(parts) ==
    IF Len(parts) > 1 THEN Some(as_bytes(parts[2])) ELSE None

VersionIgnored(version) == TRUE

\* version != HttpVersion::V1_1 sends the 400
VersionAccepted(version) == version = "V1_1"

\* the match on (method, path): the name of the arm taken
RouteNoPrefix(method, path) ==
    IF method = "GET" /\ path = PathRoot THEN "respond_ok"
    ELSE IF method = "GET" /\ path = PrefixEcho THEN "endpoint_get_echo"
    ELSE IF method = "GET" /\ path = PathUserAgent
        THEN "endpoint_get_user_agent"
    ELSE IF method = "GET" /\ path = PrefixFiles THEN "endpoint_get_files"
    ELSE IF method = "POST" /\ path = PrefixFiles THEN "endpoint_post_files"
    ELSE "respond_not_found"

Route(method, path) ==
    IF method = "GET" /\ path = PathRoot THEN "respond_ok"
    ELSE IF method = "GET" /\ StartsWith(path, PrefixEcho)
        THEN "endpoint_get_echo"
    ELSE IF method = "GET" /\ path = PathUserAgent
        THEN "endpoint_get_user_agent"
    ELSE IF method = "GET" /\ StartsWith(path, PrefixFiles)
        THEN "endpoint_get_files"
    ELSE IF method = "POST" /\ StartsWith(path, PrefixFiles)
        THEN "endpoint_post_files"
    ELSE "respond_not_found"

(***************************************************************************)
(* The handlers' pure parts.                                               *)
(***************************************************************************)
\* path.split("/").skip(2).collect().join("/")
PathRemainder(path) == join(skip(split(path, <<Slash>>), 2), <<Slash>>)

\* env_args[2] + file_name
FilePath(path) == StorageRoot \o PathRemainder(path)

\* the segments joined without the slashes between them
EchoWithoutSlashes(path) ==
    respond_string_body(join(skip(split(path, <<Slash>>), 2), <<>>), None)

endpoint_get_echo(path) == respond_string_body(PathRemainder(path), None)

\* 400 in place of 404 when no User-Agent is stored
UserAgentMissing400(headers) ==
    LET user_agent == get_header_value(headers, "UserAgent")
    IN  IF IsSome(user_agent)
        THEN respond_string_body(Unwrap(user_agent), None)
        ELSE respond_bad_request(None, None)

endpoint_get_user_agent(headers) ==
    LET user_agent == get_header_value(headers, "UserAgent")
    IN  IF IsSome(user_agent)
        THEN respond_string_body(Unwrap(user_agent), None)
        ELSE respond_not_found(None, None)

(***************************************************************************)
(* Bounds of the model.                                                    *)
(***************************************************************************)
\* connections accepted in one run
MaxConns == 2
\* worker threads of the runtime that run the spawned tasks
Workers == 2
\* the bytes a failed write_all leaves in the file, when it leaves any
MaxPartial == 1

(***************************************************************************)
(* The requests clients send: tokens, paths, header lines and bodies, and  *)
(* the byte strings built from them.                                       *)
(***************************************************************************)
TokLowerGet == <<103, 101, 116>>   \* 'get'
TokV2 == <<72, 84, 84, 80, 47, 50>>   \* 'HTTP/2'
InPathF == <<47, 102, 105, 108, 101, 115, 47, 102>>   \* '/files/f'
InPathG == <<47, 102, 105, 108, 101, 115, 47, 103>>   \* '/files/g'
InPathDir == <<47, 102, 105, 108, 101, 115, 47>>   \* '/files/'
InPathFilesBare == <<47, 102, 105, 108, 101, 115>>   \* '/files'
InPathEcho == <<47, 101, 99, 104, 111, 47, 97, 98, 47, 99>>   \* '/echo/ab/c'
InPathEchoBare == <<47, 101, 99, 104, 111>>   \* '/echo'
InPathUserAgentSub == <<47, 117, 115, 101, 114, 45, 97, 103, 101, 110, 116, 47, 120>>   \* '/user-agent/x'
InPathOther == <<47, 120>>   \* '/x'
LineOctet == <<67, 111, 110, 116, 101, 110, 116, 45, 84, 121, 112, 101, 58, 32, 97, 112, 112, 108, 105, 99, 97, 116, 105, 111, 110, 47, 111, 99, 116, 101, 116, 45, 115, 116, 114, 101, 97, 109>>   \* 'Content-Type: application/octet-stream'
LineOctetMixed == <<99, 111, 110, 116, 101, 110, 116, 45, 84, 89, 80, 69, 58, 32, 32, 65, 112, 112, 108, 105, 99, 97, 116, 105, 111, 110, 47, 79, 99, 116, 101, 116, 45, 83, 116, 114, 101, 97, 109, 32>>   \* 'content-TYPE:  Application/Octet-Stream '
LineText == <<67, 111, 110, 116, 101, 110, 116, 45, 84, 121, 112, 101, 58, 32, 116, 101, 120, 116, 47, 112, 108, 97, 105, 110>>   \* 'Content-Type: text/plain'
LineUserAgent == <<85, 115, 101, 114, 45, 65, 103, 101, 110, 116, 58, 32, 120, 121, 122>>   \* 'User-Agent: xyz'
LineUnknown == <<88, 45, 73, 100, 58, 32, 55>>   \* 'X-Id: 7'
BodyAB == <<97, 98>>   \* 'ab'
BodyC == <<99>>   \* 'c'
ContentG == <<104, 105>>   \* 'hi'
InPathEchoEmpty == <<47, 101, 99, 104, 111, 47>>   \* '/echo/'
InPathEchoSlashes == <<47, 101, 99, 104, 111, 47, 97, 47, 47>>   \* '/echo/a//'
InPathEchoUtf8 == <<47, 101, 99, 104, 111, 47, 195, 169>>   \* '/echo/\xe9'
InPathEchoEcho == <<47, 101, 99, 104, 111, 47, 47, 101, 99, 104, 111, 47>>   \* '/echo//echo/'
LineUserAgentUtf8 == <<85, 115, 101, 114, 45, 65, 103, 101, 110, 116, 58, 32, 195, 169>>   \* 'User-Agent: \xe9'
LineUserAgentMixed == <<117, 115, 101, 114, 45, 65, 71, 69, 78, 84, 58, 32, 32, 97, 32, 98, 32, 9>>   \* 'user-AGENT:  a b \t'
LineUserAgent2 == <<85, 115, 101, 114, 45, 65, 103, 101, 110, 116, 58, 32, 115, 101, 99, 111, 110, 100>>   \* 'User-Agent: second'
LineUserAgentEmpty == <<85, 115, 101, 114, 45, 65, 103, 101, 110, 116, 58, 32>>   \* 'User-Agent: '
LineNoSpace == <<85, 115, 101, 114, 45, 65, 103, 101, 110, 116, 58, 97, 98, 99>>   \* 'User-Agent:abc'
LineNoColon == <<103, 97, 114, 98, 97, 103, 101>>   \* 'garbage'
LineKeySpace == <<32, 72, 111, 115, 116, 58, 32, 97>>   \* ' Host: a'
LineColonValue == <<72, 111, 115, 116, 58, 32, 97, 58, 32, 98>>   \* 'Host: a: b'
LineAccept == <<65, 99, 99, 101, 112, 116, 58, 32, 42, 47, 42>>   \* 'Accept: */*'
LineContentLength == <<67, 111, 110, 116, 101, 110, 116, 45, 76, 101, 110, 103, 116, 104, 58, 32, 50>>   \* 'Content-Length: 2'
RawTabs == <<71, 69, 84, 9, 47, 120, 32, 32, 72, 84, 84, 80, 47, 49, 46, 49>>   \* 'GET\t/x  HTTP/1.1'
RawLeading == <<32, 32, 80, 79, 83, 84, 32, 47, 120, 32, 72, 84, 84, 80, 47, 49, 46, 48, 32>>   \* '  POST /x HTTP/1.0 '
RawNbsp == <<71, 69, 84, 194, 160, 47, 194, 160, 72, 84, 84, 80, 47, 49, 46, 49>>   \* 'GET\xa0/\xa0HTTP/1.1'
RawPatch == <<80, 65, 84, 67, 72, 32, 47, 32, 72, 84, 84, 80, 47, 49, 46, 49>>   \* 'PATCH / HTTP/1.1'
RawLowerVersion == <<71, 69, 84, 32, 47, 32, 104, 116, 116, 112, 47, 49, 46, 49>>   \* 'GET / http/1.1'
RawOddPath == <<68, 69, 76, 69, 84, 69, 32, 47, 97, 37, 50, 48, 98, 47, 46, 46, 47, 99, 63, 113, 61, 49, 32, 72, 84, 84, 80, 47, 49, 46, 49>>   \* 'DELETE /a%20b/../c?q=1 HTTP/1.1'
RawOneToken == <<71, 69, 84>>   \* 'GET'
RawBlank == <<32, 32, 32>>   \* '   '
InPathH == <<47, 102, 105, 108, 101, 115, 47, 104>>   \* '/files/h'
InPathDotG == <<47, 102, 105, 108, 101, 115, 47, 46, 47, 103>>   \* '/files/./g'
InPathSlashG == <<47, 102, 105, 108, 101, 115, 47, 47, 103>>   \* '/files//g'
InPathDot == <<47, 102, 105, 108, 101, 115, 47, 46>>   \* '/files/.'
InPathUpG == <<47, 102, 105, 108, 101, 115, 47, 46, 46, 47, 116, 109, 112, 47, 103>>   \* '/files/../tmp/g'
InPathGSlash == <<47, 102, 105, 108, 101, 115, 47, 103, 47>>   \* '/files/g/'
InPathDeep == <<47, 102, 105, 108, 101, 115, 47, 120, 47, 121>>   \* '/files/x/y'
InPathNul == <<47, 102, 105, 108, 101, 115, 47, 97, 0, 98>>   \* '/files/a\x00b'
InPathDotF == <<47, 102, 105, 108, 101, 115, 47, 46, 47, 102>>   \* '/files/./f'
InPathXSlash == <<47, 102, 105, 108, 101, 115, 47, 120, 47>>   \* '/files/x/'
LineTypeDotted == <<67, 111, 110, 116, 101, 110, 116, 45, 84, 121, 112, 101, 58, 32, 84, 69, 88, 84, 47, 80, 76, 65, 196, 176, 78>>   \* 'Content-Type: TEXT/PLA\u0130N'
LineKelvin == <<226, 132, 170, 101, 121, 58, 32, 118>>   \* '\u212aey: v'
\* a body that is not valid UTF-8 and holds an empty line: a 0xFF CRLF CRLF b
BodyBinary == <<97, 255, 13, 10, 13, 10, 98>>

SP == <<32>>

RECURSIVE HeaderBlock(_)
HeaderBlock(hs) ==
    IF hs = <<>> THEN <<>> ELSE Head(hs) \o CLRF \o HeaderBlock(Tail(hs))

\* METHOD SP PATH SP VERSION CRLF (header CRLF)* [CRLF body]
Request(method, path, version, hs, body) ==
    method \o SP \o path \o SP \o version \o CLRF \o HeaderBlock(hs)
        \o (IF IsSome(body) THEN CLRF \o Unwrap(body) ELSE <<>>)

\* the bytes a client sent after the first empty line of its request
ClientBody(sent) ==
    LET occ == Occurrences(sent, CLRF \o CLRF)
    IN  IF occ = {} THEN None
        ELSE Some(Slice(sent, SetMin(occ) + 4, Len(sent)))

\* requests on the file routes, sent by clients that connect at any time
FileRequests ==
    {Request(TokPOST, InPathF, TokV11, <<LineOctet>>, Some(BodyAB)),
     Request(TokPOST, InPathF, TokV11, <<LineOctet>>, Some(BodyC)),
     Request(TokGET, InPathF, TokV11, <<>>, Some(<<>>))}

\* requests on the file routes with bodies and targets of every kind
FileShapes ==
    FileRequests
    \cup {Request(TokPOST, InPathF, TokV11, <<LineOctet>>, b) :
            b \in {Some(BodyBinary), None}}
    \cup {Request(TokPOST, InPathG, TokV11, <<LineOctet>>, Some(BodyAB)),
          Request(TokGET, InPathG, TokV11, <<>>, Some(<<>>))}

\* a file name of NameMax + 1 bytes
InPathLong == PrefixFiles \o [k \in 1..256 |-> 97]

\* GET /user-agent with header sections of every shape: no recognized
\* line, repeated lines, lines without ": ", values to trim, no empty line
HeaderRequests ==
    {Request(TokGET, PathUserAgent, TokV11, hs, Some(<<>>)) :
        hs \in {<<>>, <<LineUnknown>>, <<LineUserAgentUtf8>>,
                <<LineUserAgentMixed, LineUserAgent>>,
                <<LineNoSpace, LineNoColon, LineUserAgent2, LineUserAgent>>,
                <<LineKeySpace, LineColonValue, LineUserAgentEmpty>>,
                <<LineAccept, LineContentLength, LineText, LineOctet>>}}
    \cup {Request(TokGET, PathUserAgent, TokV11, <<LineUserAgent>>, None),
          TokGET \o SP \o PathUserAgent \o SP \o TokV11 \o CLRF
              \o LineUserAgent}

\* GET /echo/.. with remainders that are empty, hold slashes, are not ASCII
EchoRequests ==
    {Request(TokGET, p, TokV11, <<>>, Some(<<>>)) :
        p \in {InPathEchoEmpty, InPathEchoSlashes, InPathEchoUtf8,
               InPathEchoEcho}}

\* request lines of every shape, each followed by an empty line
LineRequests ==
    {l \o CLRF \o CLRF :
        l \in {RawTabs, RawLeading, RawNbsp, RawPatch, RawLowerVersion,
               RawOddPath, RawOneToken, RawBlank}}

\* requests of every shape, sent one after the other
AllRequests ==
    FileShapes \cup HeaderRequests \cup EchoRequests \cup LineRequests
    \cup {Request(TokPOST, InPathF, TokV11, <<LineOctet>>, Some(<<>>)),
          Request(TokPOST, InPathF, TokV11, <<LineOctet>>, Some(CLRF \o CLRF)),
          Request(TokGET, InPathDir, TokV11, <<>>, Some(<<>>))}
    \cup {Request(m, p, TokV11, <<LineUserAgent>>, Some(<<>>)) :
            m \in {TokGET, TokPOST, TokPUT, TokDELETE},
            p \in {PathRoot, InPathEcho, InPathEchoBare, PathUserAgent,
                   InPathUserAgentSub, InPathFilesBare, InPathOther}}
    \cup {Request(m, InPathF, TokV11, <<LineOctet>>, Some(BodyAB)) :
            m \in {TokPUT, TokDELETE}}
    \cup {Request(m, p, TokV10, <<LineOctet>>, Some(BodyAB)) :
            m \in {TokGET, TokPOST}, p \in {PathRoot, InPathF, InPathG}}
    \cup {Request(TokPOST, p, TokV11, hs, b) :
            p \in {InPathF, InPathG, InPathDir},
            hs \in {<<>>, <<LineText>>, <<LineUnknown>>,
                    <<LineText, LineOctet>>, <<LineOctetMixed>>},
            b \in {None, Some(BodyAB)}}
    \cup {Request(m, p, TokV11, <<LineOctet>>, Some(BodyAB)) :
            m \in {TokGET, TokPOST},
            p \in {InPathH, InPathDotG, InPathSlashG, InPathDot, InPathUpG,
                   InPathGSlash, InPathDeep, InPathNul, InPathDotF,
                   InPathXSlash,
                   InPathLong}}
    \cup {Request(TokPOST, InPathF, TokV11, hs, Some(BodyAB)) :
            hs \in {<<LineTypeDotted>>, <<LineKelvin, LineOctet>>}}
    \cup {Request(TokPOST, p, TokV11, <<LineText>>, Some(BodyAB)) :
            p \in {InPathH, InPathDot, InPathDeep, InPathNul}}
    \cup {Request(TokLowerGet, PathRoot, TokV11, <<>>, Some(<<>>)),
          Request(TokGET, PathRoot, TokV2, <<>>, Some(<<>>)),
          Request(TokLowerGet, InPathF, TokV10, <<>>, Some(<<>>)),
          TokGET \o SP \o PathRoot \o CLRF \o CLRF,
          TokGET \o SP \o PathRoot \o SP \o TokV11,
          TokGET \o SP \o PathRoot \o SP \o TokV11 \o SP \o TokV11 \o CLRF,
          <<>>}

\* request r, sent in two segments of which the second holds n bytes
Held(r, n) == <<r, Len(r) - n>>

\* a GET whose request line is cut in its version token
SplitFileRequests ==
    {Held(Request(TokGET, InPathF, TokV11, <<>>, Some(<<>>)), 10)}

\* the same; a POST whose body is sent apart from its head; a POST whose
\* header lines are sent apart from its request line; a header line cut in
\* its value
SplitRequests ==
    SplitFileRequests
    \cup {Held(Request(TokGET, InPathG, TokV11, <<>>, Some(<<>>)), 10),
          Held(Request(TokPOST, InPathF, TokV11, <<LineOctet>>, Some(BodyAB)),
               2),
          Held(Request(TokPOST, InPathF, TokV11, <<LineOctet>>, Some(BodyAB)),
               Len(LineOctet) + 6),
          Held(Request(TokGET, PathUserAgent, TokV11, <<LineUserAgent>>,
                       Some(<<>>)), 5)}

(***************************************************************************)
(* The state.                                                              *)
(***************************************************************************)
VARIABLES
    pc,       \* per connection: where its task stands
    req,      \* per connection: the bytes its client sends
    arrived,  \* per connection: how many of them have reached the server
    peer,     \* per connection: "open", or "reset" once the client reset it
    task,     \* per connection: the locals of handle_connection
    out,      \* per connection: the response written to the stream, if any
    ioerr,    \* per connection: the last error a filesystem call returned
    created,  \* per connection: File::create_new returned a file
    before,   \* per connection: the connections answered before it was made
    fs,       \* the filesystem: canonical path -> entry
    idle      \* connections whose client sends nothing: how many tasks are
              \* spawned, how many sit in stream.read on a worker thread

vars == <<pc, req, arrived, peer, task, out, ioerr, created, before, fs, idle>>

Conns == 1..MaxConns

NoTask ==
    [method |-> "", path |-> <<>>, version |-> "", headers |-> <<>>,
     body |-> None, handler |-> "", file_path |-> <<>>, response |-> None]

(***************************************************************************)
(* The filesystem the handlers call into.  An entry is a directory or a    *)
(* file; the server may read an entry or not (its mode and owner); a       *)
(* directory is on a filesystem mounted read-write or read-only.  The      *)
(* paths the handlers pass are resolved as the operating system resolves   *)
(* them, component by component from the root directory.                   *)
(***************************************************************************)
Directory ==
    [kind |-> "dir", data |-> <<>>, readable |-> TRUE, read_only |-> FALSE]
File(data) == [kind |-> "file", data |-> data, readable |-> TRUE]
\* a file of mode 000 that another user owns
Unreadable(data) == [kind |-> "file", data |-> data, readable |-> FALSE]

RootDir == <<47>>
Dot == <<46>>
DotDot == <<46, 46>>

\* the longest file name, in bytes
NameMax == 255

\* the canonical path of the entry called name in directory dir
Child(dir, name) ==
    IF dir = RootDir THEN dir \o name ELSE dir \o <<47>> \o name

\* the directory that holds the entry at canonical path p; the root
\* directory holds itself
Parent(p) ==
    LET at == CHOOSE k \in 1..Len(p) :
                  p[k] = 47 /\ \A m \in (k + 1)..Len(p) : p[m] # 47
    IN  IF at = 1 THEN RootDir ELSE SubSeq(p, 1, at - 1)

\* resolve the components comps[k..] from directory cur: "found" with the
\* canonical path of the entry, "absent" with the canonical path a new
\* entry would get (its directory exists and holds no such name), or the
\* error
RECURSIVE Walk(_, _, _, _)
Walk(f, comps, k, cur) ==
    IF k > Len(comps) THEN [state |-> "found", key |-> cur]
    ELSE IF f[cur].kind # "dir" THEN [state |-> "NotADirectory", key |-> cur]
    ELSE LET name == comps[k]
         IN  IF name = <<>> \/ name = Dot THEN Walk(f, comps, k + 1, cur)
             ELSE IF name = DotDot THEN Walk(f, comps, k + 1, Parent(cur))
             ELSE IF Len(name) > NameMax
                 THEN [state |-> "NameTooLong", key |-> cur]
             ELSE IF Child(cur, name) \in DOMAIN f
                 THEN Walk(f, comps, k + 1, Child(cur, name))
             ELSE IF k = Len(comps)
                 THEN [state |-> "absent", key |-> Child(cur, name)]
             ELSE [state |-> "NotFound", key |-> cur]

\* a path with a NUL byte is refused before the system call; the paths
\* passed start with StorageRoot, so they are absolute
Resolve(f, path) ==
    LET bytes == as_bytes(path)
    IN  IF \E k \in 1..Len(bytes) : bytes[k] = 0
        THEN [state |-> "InvalidInput", key |-> RootDir]
        ELSE Walk(f, split(bytes, <<47>>), 1, RootDir)

\* the storage root holds two files when the server starts: g, and h, which
\* the server may not read
InitialFs ==
    [p \in {RootDir, <<47, 116, 109, 112>>, StorageRoot \o <<103>>,
            StorageRoot \o <<104>>} |->
        IF p = StorageRoot \o <<103>> THEN File(ContentG)
        ELSE IF p = StorageRoot \o <<104>> THEN Unreadable(ContentG)
        ELSE Directory]

\* the same with the filesystem of the storage root mounted read-only
ReadOnlyFs == [InitialFs EXCEPT ![<<47, 116, 109, 112>>].read_only = TRUE]

Init ==
    /\ pc = [i \in Conns |-> "closed"]
    /\ req = [i \in Conns |-> <<>>]
    /\ arrived = [i \in Conns |-> 0]
    /\ peer = [i \in Conns |-> "open"]
    /\ task = [i \in Conns |-> NoTask]
    /\ out = [i \in Conns |-> None]
    /\ ioerr = [i \in Conns |-> "none"]
    /\ created = [i \in Conns |-> FALSE]
    /\ before = [i \in Conns |-> {}]
    /\ fs \in {InitialFs, ReadOnlyFs}
    /\ idle = [spawned |-> 0, read |-> 0]

Finished(i) == pc[i] \in {"done", "panicked"}
Running(i) == pc[i] \notin {"closed", "spawned", "done", "panicked"}

\* fs with the entry at canonical path p set to e
FsPut(f, p, e) == [q \in DOMAIN f \cup {p} |-> IF q = p THEN e ELSE f[q]]

\* fs::metadata(path).is_ok()
NeverExists(f, p) == FALSE

Exists(f, p) == Resolve(f, p).state = "found"

\* the entry a path names
Entry(f, p) == f[Resolve(f, p).key]

\* the worker threads that are running a task: std's blocking calls keep
\* the thread until the task ends
Busy == Cardinality({j \in Conns : Running(j)}) + idle.read

(***************************************************************************)
(* main: the accept loop spawns one task per connection, in order; a       *)
(* worker thread takes a spawned task and runs it to its end.  The client  *)
(* of connection i sends the bytes r; the first k of them have arrived     *)
(* when the connection is accepted, the others arrive later, or the client *)
(* resets the connection.                                                  *)
(***************************************************************************)
Accept(i, r, k) ==
    /\ pc[i] = "closed"
    /\ \A j \in Conns : j < i => pc[j] # "closed"
    /\ pc' = [pc EXCEPT ![i] = "spawned"]
    /\ req' = [req EXCEPT ![i] = r]
    /\ arrived' = [arrived EXCEPT ![i] = k]
    /\ before' = [before EXCEPT ![i] = {j \in Conns : Finished(j)}]
    /\ UNCHANGED <<peer, task, out, ioerr, created, fs, idle>>

\* the rest of the request arrives before the task has read
Deliver(i) ==
    /\ pc[i] \in {"spawned", "read"}
    /\ arrived[i] < Len(req[i])
    /\ arrived' = [arrived EXCEPT ![i] = Len(req[i])]
    /\ UNCHANGED <<pc, req, peer, task, out, ioerr, created, before, fs, idle>>

Start(i) ==
    /\ pc[i] = "spawned"
    /\ Busy < Workers
    /\ pc' = [pc EXCEPT ![i] = "read"]
    /\ UNCHANGED <<req, arrived, peer, task, out, ioerr, created, before, fs,
                   idle>>

\* a handler has built response r and goes on to write it to the stream
Pending(i, r) ==
    /\ pc' = [pc EXCEPT ![i] = "write"]
    /\ task' = [task EXCEPT ![i].response = Some(r)]

\* a task panics: nothing more is written, the stream is dropped
Panic(i) ==
    /\ pc' = [pc EXCEPT ![i] = "panicked"]
    /\ out' = out

(***************************************************************************)
(* handle_connection: read, parse, check the version, dispatch, up to the  *)
(* handler's first filesystem call or to the response it built.  Dispatch  *)
(* is where the task stands after that: its locals and its position.       *)
(***************************************************************************)
Returned(t, r) == [task |-> [t EXCEPT !.response = Some(r)], pc |-> "write"]
Calls(t, call) == [task |-> t, pc |-> call]
Panicked == [task |-> NoTask, pc |-> "panicked"]

Dispatch(received) ==
    LET parts == RequestParts(ReadBuffer(received))
        parsed == parse_request_line(RequestLine(parts))
    IN  IF ~ IsSome(parsed)
        THEN Panicked
        ELSE LET p == Unwrap(parsed)
                 t == [method |-> p.method, path |-> p.path,
                       version |-> p.version, headers |-> <<>>,
                       body |-> None, handler |-> "",
                       file_path |-> <<>>, response |-> None]
             IN  IF ~ VersionAccepted(p.version)
                 THEN Returned(t, respond_bad_request(None, Some(MsgVersion)))
                 ELSE LET header_parser ==
                              HeaderParser_parse(HeaderLines(parts))
                          h == Route(p.method, p.path)
                          u == [t EXCEPT !.headers = header_parser,
                                         !.body = RequestBody(parts),
                                         !.handler = h,
                                         !.file_path =
                                             IF h \in {"endpoint_get_files",
                                                       "endpoint_post_files"}
                                             THEN FilePath(p.path)
                                             ELSE <<>>]
                      IN  IF h = "respond_ok"
                              THEN Returned(u, respond_ok(None, None))
                          ELSE IF h = "endpoint_get_echo"
                              THEN Returned(u, endpoint_get_echo(p.path))
                          ELSE IF h = "endpoint_get_user_agent"
                              THEN Returned(u,
                                       endpoint_get_user_agent(header_parser))
                          ELSE IF h = "endpoint_get_files"
                              THEN Calls(u, "open")
                          ELSE IF h = "endpoint_post_files"
                              THEN IF ~ is_content_type(header_parser,
                                            ApplicationOctetStream)
                                   THEN Returned(u, respond_bad_request(
                                            None, Some(MsgContentType)))
                                   ELSE Calls(u, "metadata")
                          ELSE Returned(u, respond_not_found(None, None))

\* stream.read returns once bytes have arrived or the client has closed
\* its side having sent nothing; it returns the bytes that have arrived
HandleConnection(i) ==
    /\ pc[i] = "read"
    /\ arrived[i] > 0 \/ req[i] = <<>>
    /\ \E d \in {Dispatch(Slice(req[i], 1, arrived[i]))} :
        /\ task' = [task EXCEPT ![i] = d.task]
        /\ pc' = [pc EXCEPT ![i] = d.pc]
    /\ UNCHANGED <<req, arrived, peer, out, ioerr, created, before, fs, idle>>

(***************************************************************************)
(* stream.write of the response a handler built with respond_ok or one of  *)
(* its five siblings (lines 386, 397, 408, 419, 434, 445), then the task   *)
(* returns.                                                                *)
(***************************************************************************)
Respond(i) ==
    /\ pc[i] = "write"
    /\ pc' = [pc EXCEPT ![i] = "done"]
    /\ out' = [out EXCEPT ![i] = task[i].response]
    /\ UNCHANGED <<req, arrived, peer, task, ioerr, created, before, fs, idle>>

(***************************************************************************)
(* respond_byte_body writes in two calls: the status line and the header   *)
(* section (line 374), then the body (line 375).  out holds what has been  *)
(* written: after the first call, the response without its body.           *)
(***************************************************************************)
\* header_buf of response r: r up to the empty line
HeaderBuf(r) == [r EXCEPT !.body = <<>>]

WriteHeader(i) ==
    /\ pc[i] = "write_header"
    /\ pc' = [pc EXCEPT ![i] = "write_body"]
    /\ out' = [out EXCEPT ![i] = Some(HeaderBuf(Unwrap(task[i].response)))]
    /\ UNCHANGED <<req, arrived, peer, task, ioerr, created, before, fs, idle>>

WriteBody(i) ==
    /\ pc[i] = "write_body"
    /\ pc' = [pc EXCEPT ![i] = "done"]
    /\ out' = [out EXCEPT ![i] = task[i].response]
    /\ UNCHANGED <<req, arrived, peer, task, ioerr, created, before, fs, idle>>

(***************************************************************************)
(* The client resets the connection before it is answered in full.  The    *)
(* task finds out at its next call on the stream: the read of line 200,    *)
(* when no byte has arrived (bytes that arrived before the reset are       *)
(* returned by the read), or a write of its response, the second write of  *)
(* respond_byte_body included.  The call returns the error and the unwrap  *)
(* panics; what was written before stays written.  Nothing else looks at   *)
(* the connection, so the reset is taken at that call, whenever the client *)
(* made it.                                                                *)
(***************************************************************************)
Reset(i) ==
    /\ \/ pc[i] = "read" /\ arrived[i] = 0
       \/ pc[i] \in {"write", "write_header", "write_body"}
    /\ peer' = [peer EXCEPT ![i] = "reset"]
    /\ Panic(i)
    /\ UNCHANGED <<req, arrived, task, ioerr, created, before, fs, idle>>

(***************************************************************************)
(* endpoint_get_files: File::open, then read_to_end, then the response.    *)
(* Opening a directory for reading succeeds; reading it fails.             *)
(***************************************************************************)
\* File::open(path): Ok, or the error
OpenResult(f, p) ==
    LET r == Resolve(f, p)
    IN  IF r.state = "absent" THEN "NotFound"
        ELSE IF r.state # "found" THEN r.state
        ELSE IF ~ f[r.key].readable THEN "PermissionDenied"
        ELSE "Ok"

FileOpen(i) ==
    /\ pc[i] = "open"
    /\ IF OpenResult(fs, task[i].file_path) = "Ok"
       THEN /\ pc' = [pc EXCEPT ![i] = "read_to_end"]
            /\ task' = task
       ELSE Pending(i, respond_not_found(None, None))
    /\ UNCHANGED <<req, arrived, peer, out, ioerr, created, before, fs, idle>>

ReadToEnd(i) ==
    /\ pc[i] = "read_to_end"
    /\ LET f == Entry(fs, task[i].file_path)
       IN  IF f.kind = "dir"
           THEN /\ Panic(i)
                /\ task' = task
                /\ ioerr' = [ioerr EXCEPT ![i] = "IsADirectory"]
           ELSE /\ pc' = [pc EXCEPT ![i] = "write_header"]
                /\ task' = [task EXCEPT ![i].response =
                               Some(respond_byte_body(f.data,
                                                      Some(StrOctetStream)))]
                /\ out' = out
                /\ ioerr' = ioerr
    /\ UNCHANGED <<req, arrived, peer, created, before, fs, idle>>

(***************************************************************************)
(* endpoint_post_files after the content type check: fs::metadata, then    *)
(* the body check, File::create_new, write_all, and the response.          *)
(***************************************************************************)
Metadata(i) ==
    /\ pc[i] = "metadata"
    /\ IF Exists(fs, task[i].file_path)
       THEN Pending(i, respond_conflict(None, Some(MsgExists)))
       ELSE IF ~ IsSome(task[i].body)
       THEN Pending(i, respond_bad_request(None, Some(MsgNoBody)))
       ELSE /\ pc' = [pc EXCEPT ![i] = "create_new"]
            /\ task' = task
    /\ UNCHANGED <<req, arrived, peer, out, ioerr, created, before, fs, idle>>

\* the path names a new entry with a slash after its name: its last name
\* is an ordinary one and the names before it lead to a directory
CreatesWithSlash(f, p) ==
    LET bytes == as_bytes(p)
        names == SelectSeq(split(bytes, <<47>>), LAMBDA c : c # <<>>)
        n == Len(names)
    IN  /\ n > 0
        /\ bytes[Len(bytes)] = 47
        /\ names[n] \notin {Dot, DotDot}
        /\ LET dir == Walk(f, SubSeq(names, 1, n - 1), 1, RootDir)
           IN  dir.state = "found" /\ f[dir.key].kind = "dir"

\* File::create in place of File::create_new: an existing file is truncated
CreateTruncates(f, p) ==
    IF Resolve(f, p).state \in {"found", "absent"}
    THEN IF f[Parent(Resolve(f, p).key)].read_only
         THEN {"ReadOnlyFilesystem"}
         ELSE {"Ok", "PermissionDenied", "StorageFull"}
    ELSE {Resolve(f, p).state}

\* what File::create_new can return: the file, or an error.  A path to
\* create that ends in a slash is refused as a directory before its last
\* name is looked up; a new entry is refused on a filesystem mounted
\* read-only, and elsewhere needs the right to write the directory and
\* room on the device
CreateResults(f, p) ==
    LET r == Resolve(f, p)
    IN  IF r.state = "InvalidInput" THEN {"InvalidInput"}
        ELSE IF CreatesWithSlash(f, p) THEN {"IsADirectory"}
        ELSE IF r.state = "found" THEN {"AlreadyExists"}
        ELSE IF r.state = "absent"
            THEN IF f[Parent(r.key)].read_only
                 THEN {"ReadOnlyFilesystem"}
                 ELSE {"Ok", "PermissionDenied", "StorageFull"}
        ELSE {r.state}

CreateNew(i) ==
    /\ pc[i] = "create_new"
    /\ \E res \in CreateResults(fs, task[i].file_path) :
        IF res = "Ok"
        THEN /\ fs' = FsPut(fs, Resolve(fs, task[i].file_path).key, File(<<>>))
             /\ created' = [created EXCEPT ![i] = TRUE]
             /\ pc' = [pc EXCEPT ![i] = "write_all"]
             /\ UNCHANGED <<task, ioerr>>
        ELSE /\ ioerr' = [ioerr EXCEPT ![i] = res]
             /\ Pending(i, respond_internal_server_error(
                               None, Some(MsgCreateFailed)))
             /\ UNCHANGED <<fs, created>>
    /\ UNCHANGED <<req, arrived, peer, out, before, idle>>

\* what write_all can leave in the file: all of body (Ok), or nothing or
\* the first MaxPartial bytes of it and an error
WriteResults(body) ==
    {Len(body)} \cup {k \in {0, MaxPartial} : k < Len(body)}

WriteAll(i) ==
    /\ pc[i] = "write_all"
    /\ LET body == Unwrap(task[i].body)
       IN  \E n \in WriteResults(body) :
            /\ fs' = FsPut(fs, Resolve(fs, task[i].file_path).key,
                           File(Slice(body, 1, n)))
            /\ IF n = Len(body)
               THEN /\ Pending(i, respond_created(None, None))
                    /\ ioerr' = ioerr
               ELSE /\ Pending(i, respond_internal_server_error(
                                      None, Some(MsgWriteFailed)))
                    /\ ioerr' = [ioerr EXCEPT ![i] = "WriteFailed"]
    /\ UNCHANGED <<req, arrived, peer, out, created, before, idle>>

(***************************************************************************)
(* The client of a finished connection closes it; its slot is free for a   *)
(* later connection.                                                       *)
(***************************************************************************)
Close(i) ==
    /\ Finished(i)
    /\ pc' = [pc EXCEPT ![i] = "closed"]
    /\ req' = [req EXCEPT ![i] = <<>>]
    /\ arrived' = [arrived EXCEPT ![i] = 0]
    /\ peer' = [peer EXCEPT ![i] = "open"]
    /\ task' = [task EXCEPT ![i] = NoTask]
    /\ out' = [out EXCEPT ![i] = None]
    /\ ioerr' = [ioerr EXCEPT ![i] = "none"]
    /\ created' = [created EXCEPT ![i] = FALSE]
    /\ before' = [j \in Conns |-> IF j = i THEN {} ELSE before[j] \ {i}]
    /\ UNCHANGED <<fs, idle>>

(***************************************************************************)
(* The specifications.  Spec: MaxConns clients connect at any time, each   *)
(* with a request on the file routes.  SpecSeq: one client sends requests  *)
(* of every shape without end, each on a new connection made after the     *)
(* last one was answered or dropped.  In both a request may arrive in two  *)
(* segments and a client may reset its connection.                         *)
(***************************************************************************)
Step(i) ==
    \/ Start(i)
    \/ HandleConnection(i)
    \/ FileOpen(i)
    \/ ReadToEnd(i)
    \/ Metadata(i)
    \/ CreateNew(i)
    \/ WriteAll(i)
    \/ Respond(i)
    \/ WriteHeader(i)
    \/ WriteBody(i)

\* the requests of R, each sent in one segment
Whole(R) == {<<r, Len(r)>> : r \in R}

Next ==
    \E i \in Conns :
        \/ \E s \in Whole(FileRequests) \cup SplitFileRequests :
               Accept(i, s[1], s[2])
        \/ Deliver(i)
        \/ Reset(i)
        \/ Step(i)

Spec == Init /\ [][Next]_vars

NextSeq ==
    \/ \E s \in Whole(AllRequests) \cup SplitRequests : Accept(1, s[1], s[2])
    \/ Deliver(1)
    \/ Reset(1)
    \/ Step(1)
    \/ Close(1)

SpecSeq == Init /\ [][NextSeq]_vars

(***************************************************************************)
(* A client that connects and sends nothing.  The accept loop spawns its   *)
(* task like any other; once a worker thread runs the task, the thread     *)
(* sits in the blocking stream.read for as long as the client is silent.   *)
(* As many such clients connect as the runtime has worker threads.         *)
(***************************************************************************)
AcceptIdle ==
    /\ idle.spawned + idle.read < Workers
    /\ idle' = [idle EXCEPT !.spawned = @ + 1]
    /\ UNCHANGED <<pc, req, arrived, peer, task, out, ioerr, created, before,
                   fs>>

StartIdle ==
    /\ idle.spawned > 0
    /\ Busy < Workers
    /\ idle' = [spawned |-> idle.spawned - 1, read |-> idle.read + 1]
    /\ UNCHANGED <<pc, req, arrived, peer, task, out, ioerr, created, before,
                   fs>>

\* requests of the stateless routes and a file write
MixRequests ==
    {Request(TokGET, p, TokV11, <<LineUserAgent>>, Some(<<>>)) :
        p \in {PathRoot, InPathEcho, PathUserAgent}}
    \cup {Request(TokPOST, InPathF, TokV11, <<LineOctet>>, Some(BodyAB))}

\* two of them sent in two segments: GET /user-agent cut in the value of
\* its User-Agent line, GET / cut in its version token
SplitMixRequests ==
    {Held(Request(TokGET, PathUserAgent, TokV11, <<LineUserAgent>>,
                  Some(<<>>)), 5),
     Held(Request(TokGET, PathRoot, TokV11, <<LineUserAgent>>, Some(<<>>)),
          Len(LineUserAgent) + 10)}

\* the same, a file read and a request whose task panics
LiveRequests ==
    MixRequests
    \cup {Request(TokGET, InPathF, TokV11, <<LineUserAgent>>, Some(<<>>)),
          TokGET \o SP \o PathRoot \o CLRF \o CLRF}

(***************************************************************************)
(* SpecMix: MaxConns connections at a time, made and closed without end,   *)
(* with requests of the stateless routes among file writes, sent in one    *)
(* segment or in two by clients that wait for their answer.                *)
(***************************************************************************)
NextMix ==
    \E i \in Conns :
        \/ \E s \in Whole(MixRequests) \cup SplitMixRequests :
               Accept(i, s[1], s[2])
        \/ Deliver(i)
        \/ Start(i)
        \/ HandleConnection(i)
        \/ Metadata(i)
        \/ CreateNew(i)
        \/ WriteAll(i)
        \/ Respond(i)
        \/ Close(i)

SpecMix == Init /\ [][NextMix]_vars

(***************************************************************************)
(* SpecLive: such clients and silent ones, under a fair scheduler: a       *)
(* task that can take a step takes it.  Clients are not bound to anything. *)
(***************************************************************************)
NextLive ==
    \/ AcceptIdle
    \/ StartIdle
    \/ \E i \in Conns :
        \/ \E r \in LiveRequests : Accept(i, r, Len(r))
        \/ Step(i)

\* WF_vars(HandleConnection(i)) is written out: with the request arrived
\* the step is enabled exactly when pc[i] = "read", and it leaves that
\* position
Fairness ==
    \A i \in Conns :
        /\ WF_vars(Start(i))
        /\ []<>(pc[i] # "read")
        /\ WF_vars(FileOpen(i) \/ ReadToEnd(i))
        /\ WF_vars(Metadata(i) \/ CreateNew(i) \/ WriteAll(i))
        /\ WF_vars(Respond(i) \/ WriteHeader(i) \/ WriteBody(i))

SpecLive == Init /\ [][NextLive]_vars /\ Fairness

(***************************************************************************)
(* What the claims speak of.                                               *)
(***************************************************************************)
\* the bytes stream.read returned to the task of connection i: those that
\* had arrived (none arrive between the read and the end of the task)
Received(i) == Slice(req[i], 1, arrived[i])

\* the read of connection i failed: its client had reset the connection
ReadFailed(i) == peer[i] = "reset" /\ ~ IsSome(task[i].response)

\* the task of connection i has read and dispatched its request
Handled(i) == pc[i] \notin {"closed", "spawned", "read"} /\ ~ ReadFailed(i)

\* the whitespace-separated tokens of the request line received
SentTokens(i) ==
    split_whitespace(RequestLine(RequestParts(ReadBuffer(Received(i)))))

\* the request line does not parse: not 3 tokens, or a method or a version
\* token outside the closed sets
BadRequestLine(i) ==
    LET toks == SentTokens(i)
    IN  \/ Len(toks) # 3
        \/ toks[1] \notin {TokGET, TokPOST, TokPUT, TokDELETE}
        \/ toks[3] \notin {TokV10, TokV11}

\* the client sent a well-formed request line with this version token
SentVersion(i, tok) == ~ BadRequestLine(i) /\ SentTokens(i)[3] = tok

\* the response of connection i has this status code
Answered(i, code) ==
    pc[i] = "done" /\ IsSome(out[i]) /\ Unwrap(out[i]).code = code

\* the task of connection i ended and its client had not reset it
Served(i) == Finished(i) /\ peer[i] = "open"

\* connection i is answered r: its task built r and writes it to the
\* stream, unless the client resets the connection first
AnsweredWith(i, r) ==
    /\ task[i].response = Some(r)
    /\ IF pc[i] = "done" THEN out[i] = Some(r)
       ELSE pc[i] \in {"write", "write_header", "write_body"}
            \/ peer[i] = "reset"

\* the canonical path of the blob the request of connection i names
Target(i) == Resolve(fs, task[i].file_path).key

\* connection i ran the file-write handler past its content type check
IsFilePost(i) ==
    /\ task[i].handler = "endpoint_post_files"
    /\ is_content_type(task[i].headers, ApplicationOctetStream)

IsFileGet(i) == task[i].handler = "endpoint_get_files"

\* connections i and j did not overlap: one was answered before the other
\* was made
Sequential(i, j) == i \in before[j] \/ j \in before[i]

(***************************************************************************)
(* C1: every connection whose request line fails to parse is answered 400  *)
(* Bad Request, and its task does not panic.                               *)
(***************************************************************************)
C1_ParseFailureAnswered400 ==
    \A i \in Conns :
        (Handled(i) /\ BadRequestLine(i)) => Answered(i, 400)

(***************************************************************************)
(* C2: a GET /files/{name} made after a POST /files/{name} was answered    *)
(* 201 returns 200, Content-Type application/octet-stream and exactly the  *)
(* bytes the client of the POST sent after the first empty line.           *)
(***************************************************************************)
C2_ReadReturnsBytesSent ==
    \A i, j \in Conns :
        (/\ Answered(i, 201) /\ IsFilePost(i)
         /\ i \in before[j]
         /\ IsFileGet(j) /\ task[j].file_path = task[i].file_path
         /\ Served(j))
        => /\ Answered(j, 200)
           /\ Unwrap(out[j]).body = Unwrap(ClientBody(req[i]))
           /\ Unwrap(out[j]).headers =
                  ResponseHeader(StrOctetStream, Len(Unwrap(ClientBody(req[i]))))

(***************************************************************************)
(* C3: for requests sent one after the other, a POST /files/{name} with    *)
(* Content-Type application/octet-stream and a body, to a name that does   *)
(* not exist, creates the blob and is answered 201 (the filesystem         *)
(* reporting no error); every later POST to that path with that content    *)
(* type, whatever its body, is answered 409; and the blob keeps the        *)
(* content the first POST wrote.  (Answered: to a client that has not      *)
(* reset its connection.)                                                  *)
(***************************************************************************)
C3_FirstPostCreates(i) ==
    (/\ Served(i) /\ IsFilePost(i)
     /\ IsSome(task[i].body)
     /\ ioerr[i] = "none"
     /\ ~ Exists(InitialFs, task[i].file_path)
     /\ \A j \in Conns \ {i} :
            /\ pc[j] # "closed" => Sequential(i, j)
            /\ (j \in before[i] /\ Target(j) = Target(i)) => ~ created[j])
    => /\ Answered(i, 201)
       /\ created[i]

C3_LaterPostConflicts(i, j) ==
    (/\ Answered(i, 201) /\ IsFilePost(i)
     /\ i \in before[j]
     /\ IsFilePost(j) /\ task[j].file_path = task[i].file_path
     /\ Served(j))
    => Answered(j, 409)

C3_ContentKept(i) ==
    (Answered(i, 201) /\ IsFilePost(i))
    => /\ Exists(fs, task[i].file_path)
       /\ Entry(fs, task[i].file_path) = File(Unwrap(task[i].body))

C3_SequentialPostOnce ==
    \A i \in Conns :
        /\ C3_FirstPostCreates(i)
        /\ C3_ContentKept(i)
        /\ \A j \in Conns : C3_LaterPostConflicts(i, j)

\* a POST answered 201, then a POST of another body to the same path
\* answered 409
C3_Witness ==
    \E i, j \in Conns :
        /\ Answered(i, 201) /\ IsFilePost(i)
        /\ i \in before[j]
        /\ IsFilePost(j) /\ task[j].file_path = task[i].file_path
        /\ task[j].body # task[i].body
        /\ Answered(j, 409)

(***************************************************************************)
(* C4: a POST /files/{name} that does not create the blob because it       *)
(* already exists is answered 409, under every interleaving; 500 is        *)
(* answered only for a filesystem failure other than that.                 *)
(***************************************************************************)
C4_ExistingTargetAnswered409 ==
    \A i \in Conns :
        /\ (Served(i) /\ ioerr[i] = "AlreadyExists") => Answered(i, 409)
        /\ Answered(i, 500) => ioerr[i] \notin {"none", "AlreadyExists"}

(***************************************************************************)
(* C5: the file write is all-or-nothing: a finished POST /files/{name}     *)
(* either was answered 201 and the blob holds the full body, or was        *)
(* answered another status and created no blob.                            *)
(***************************************************************************)
C5_WriteAllOrNothing ==
    \A i \in Conns :
        (task[i].handler = "endpoint_post_files" /\ Served(i))
        => \/ /\ Answered(i, 201)
              /\ Exists(fs, task[i].file_path)
              /\ Entry(fs, task[i].file_path) = File(Unwrap(task[i].body))
           \/ /\ ~ Answered(i, 201)
              /\ ~ created[i]

(***************************************************************************)
(* C6: a GET /files/{name} that runs while POSTs to that name run never    *)
(* sees an intermediate state: it is answered 404, or 200 with the         *)
(* complete body of a POST (no write having failed).                       *)
(***************************************************************************)
C6_ReadSeesCompleteBlob ==
    \A j \in Conns :
        (/\ IsFileGet(j) /\ Answered(j, 200)
         /\ ~ Exists(InitialFs, task[j].file_path)
         /\ \A i \in Conns : ioerr[i] # "WriteFailed")
        => \E i \in Conns :
               /\ IsFilePost(i)
               /\ Target(i) = Target(j)
               /\ IsSome(task[i].body)
               /\ Unwrap(out[j]).body = Unwrap(task[i].body)

(***************************************************************************)
(* C7: every request with version HTTP/1.0 is answered 400, whatever its   *)
(* method and path; the version is checked before the headers are parsed   *)
(* and before routing, so no handler runs and no blob is created.  (The    *)
(* answer is written unless the client has reset the connection.)          *)
(***************************************************************************)
C7_Http10Rejected ==
    \A i \in Conns :
        (Handled(i) /\ SentVersion(i, TokV10))
        => /\ AnsweredWith(i, respond_bad_request(None, Some(MsgVersion)))
           /\ Unwrap(task[i].response).code = 400
           /\ task[i].headers = <<>>
           /\ task[i].handler = ""
           /\ ~ created[i]

\* an HTTP/1.0 POST /files/f with a body and the right content type was
\* answered 400, and f does not exist
C7_Witness ==
    \E i \in Conns :
        /\ pc[i] = "done"
        /\ SentVersion(i, TokV10)
        /\ SentTokens(i)[1] = TokPOST
        /\ SentTokens(i)[2] = InPathF
        /\ Answered(i, 400)
        /\ ~ Exists(fs, FilePath(InPathF))

(***************************************************************************)
(* C8: every HTTP/1.1 POST /files/{name} whose Content-Type header is      *)
(* absent or derives to anything other than application/octet-stream is    *)
(* answered 400 and creates no file, with or without a body, whether or    *)
(* not the target exists.  (The answer is written unless the client has    *)
(* reset the connection.)                                                  *)
(***************************************************************************)
C8_WrongContentTypeRejected ==
    \A i \in Conns :
        (/\ Handled(i)
         /\ SentVersion(i, TokV11)
         /\ SentTokens(i)[1] = TokPOST
         /\ StartsWith(SentTokens(i)[2], PrefixFiles)
         /\ get_content_type(task[i].headers) # Some(ApplicationOctetStream))
        => /\ AnsweredWith(i,
                  respond_bad_request(None, Some(MsgContentType)))
           /\ Unwrap(task[i].response).code = 400
           /\ ~ created[i]

\* a text/plain POST with a body to the existing g, and one to the absent f,
\* each answered 400
C8_Witness ==
    \E i \in Conns :
        /\ Answered(i, 400)
        /\ SentVersion(i, TokV11)
        /\ SentTokens(i)[1] = TokPOST
        /\ get_content_type(task[i].headers) = Some(TextPlain)
        /\ IsSome(task[i].body)
        /\ \/ SentTokens(i)[2] = InPathG /\ Exists(fs, FilePath(InPathG))
           \/ SentTokens(i)[2] = InPathF /\ ~ Exists(fs, FilePath(InPathF))

(***************************************************************************)
(* C9: the file-read handler answers every GET /files/{remainder}: 200     *)
(* when the whole content was read, 404 on any failure to read it; its     *)
(* task does not panic.                                                    *)
(***************************************************************************)
C9_ReadFailureAnswered404 ==
    \A i \in Conns :
        (IsFileGet(i) /\ Served(i))
        => \/ Answered(i, 404)
           \/ /\ Answered(i, 200)
              /\ Entry(fs, task[i].file_path).kind = "file"

(***************************************************************************)
(* C10: routing is a fixed function of the method and the raw path of an   *)
(* HTTP/1.1 request: GET "/" is answered 200 with empty header and body    *)
(* sections; GET "/echo/.." runs echo, GET "/user-agent" user-agent, GET   *)
(* "/files/.." file-read, POST "/files/.." file-write; every other         *)
(* request is answered 404 and creates no blob.  (An answer is written     *)
(* unless the client has reset the connection.)                            *)
(***************************************************************************)
C10_RoutingTable ==
    \A i \in Conns :
        (Handled(i) /\ SentVersion(i, TokV11))
        => LET m == SentTokens(i)[1]
               p == SentTokens(i)[2]
               h == task[i].handler
           IN  IF m = TokGET /\ p = PathRoot
                   THEN AnsweredWith(i, [code |-> 200, reason |-> ReasonOK,
                                         headers |-> <<>>, body |-> <<>>])
               ELSE IF m = TokGET /\ StartsWith(p, PrefixEcho)
                   THEN /\ h = "endpoint_get_echo"
                        /\ IsSome(task[i].response)
                        /\ AnsweredWith(i, Unwrap(task[i].response))
                        /\ Unwrap(task[i].response).code = 200
               ELSE IF m = TokGET /\ p = PathUserAgent
                   THEN h = "endpoint_get_user_agent"
               ELSE IF m = TokGET /\ StartsWith(p, PrefixFiles)
                   THEN h = "endpoint_get_files"
               ELSE IF m = TokPOST /\ StartsWith(p, PrefixFiles)
                   THEN h = "endpoint_post_files"
               ELSE /\ h = "respond_not_found"
                    /\ AnsweredWith(i, [code |-> 404,
                                        reason |-> ReasonNotFound,
                                        headers |-> <<>>, body |-> <<>>])
                    /\ ~ created[i]

\* a PUT /files/f with the right content type and a body was answered 404,
\* and f does not exist
C10_Witness ==
    \E i \in Conns :
        /\ SentVersion(i, TokV11)
        /\ SentTokens(i)[1] = TokPUT
        /\ SentTokens(i)[2] = InPathF
        /\ Answered(i, 404)
        /\ ~ Exists(fs, FilePath(InPathF))

(***************************************************************************)
(* C11: under fair scheduling every connection that delivers a well-formed *)
(* HTTP/1.1 request is eventually answered, whatever the other connections *)
(* do: tasks that panic, clients that stay connected and send nothing.     *)
(***************************************************************************)
C11_EveryRequestAnswered ==
    \A i \in Conns :
        (pc[i] = "spawned" /\ SentVersion(i, TokV11))
            ~> (pc[i] = "done" /\ IsSome(out[i]))

\* the header lines of the request received, as the task splits them off
SentHeaderLines(i) ==
    HeaderLines(RequestParts(ReadBuffer(Received(i))))

\* the method and path tokens of the request line received
SentMethod(i) == SentTokens(i)[1]
SentPath(i) == SentTokens(i)[2]

\* the lines of ls that name header key (lower case): they hold ": " and
\* the text before the first ": " is key in any case
LinesNaming(ls, key) ==
    {k \in 1..Len(ls) :
        /\ Occurrences(ls[k], SepColon) # {}
        /\ to_lowercase(
               Slice(ls[k], 1, SetMin(Occurrences(ls[k], SepColon)) - 1)) = key}

\* the trimmed text after the first ": " of the earliest such line
FirstValue(ls, key) ==
    LET hits == LinesNaming(ls, key)
    IN  IF hits = {} THEN None
        ELSE LET l == ls[SetMin(hits)]
                 at == SetMin(Occurrences(l, SepColon))
             IN  Some(trim(Slice(l, at + 2, Len(l))))

IsUserAgentGet(i) ==
    /\ Handled(i)
    /\ SentVersion(i, TokV11)
    /\ SentMethod(i) = TokGET
    /\ SentPath(i) = PathUserAgent

(***************************************************************************)
(* C12: GET /user-agent over HTTP/1.1 is answered 200 with Content-Type    *)
(* text/plain, the value of the first User-Agent header line as the body   *)
(* and that value's length in bytes as Content-Length; with no User-Agent  *)
(* header line it is answered 404 with empty header and body sections.     *)
(* (The answer is written unless the client has reset the connection.)     *)
(***************************************************************************)
C12_UserAgentEchoed ==
    \A i \in Conns :
        IsUserAgentGet(i)
        => LET v == FirstValue(SentHeaderLines(i), KeyUserAgent)
           IN  IF IsSome(v)
               THEN AnsweredWith(i,
                        [code |-> 200, reason |-> ReasonOK,
                         headers |->
                             HdrContentType \o StrTextPlain \o CLRF
                             \o HdrContentLength
                             \o to_string(Len(as_bytes(Unwrap(v))))
                             \o CLRF,
                         body |-> as_bytes(Unwrap(v))])
               ELSE AnsweredWith(i,
                        [code |-> 404, reason |-> ReasonNotFound,
                         headers |-> <<>>, body |-> <<>>])

\* a value of one character in two bytes was answered as those two bytes
\* with Content-Length 2
C12_Witness ==
    \E i \in Conns :
        /\ IsUserAgentGet(i)
        /\ pc[i] = "done"
        /\ SentHeaderLines(i) = <<from_utf8_lossy(LineUserAgentUtf8)>>
        /\ Unwrap(out[i]).body = <<195, 169>>
        /\ Unwrap(out[i]).headers = ResponseHeader(StrTextPlain, 2)

IsEchoGet(i) ==
    /\ Handled(i)
    /\ SentVersion(i, TokV11)
    /\ SentMethod(i) = TokGET
    /\ StartsWith(SentPath(i), PrefixEcho)

\* the path without its first Len("/echo/") characters
AfterEcho(path) == Slice(path, Len(PrefixEcho) + 1, Len(path))

(***************************************************************************)
(* C13: every GET whose path starts with "/echo/" is answered 200 with     *)
(* Content-Type text/plain, the path without the leading "/echo/" as the   *)
(* body, slashes kept, and the body's length in bytes as Content-Length.   *)
(* (The answer is written unless the client has reset the connection.)     *)
(***************************************************************************)
C13_EchoReturnsRemainder ==
    \A i \in Conns :
        IsEchoGet(i)
        => LET body == as_bytes(AfterEcho(SentPath(i)))
           IN  AnsweredWith(i,
                   [code |-> 200, reason |-> ReasonOK,
                    headers |->
                        HdrContentType \o StrTextPlain \o CLRF
                        \o HdrContentLength \o to_string(Len(body))
                        \o CLRF,
                    body |-> body])

\* GET /echo/a// was answered with the three bytes a//
C13_Witness ==
    \E i \in Conns :
        /\ IsEchoGet(i)
        /\ SentPath(i) = InPathEchoSlashes
        /\ pc[i] = "done"
        /\ Unwrap(out[i]).body = <<97, 47, 47>>
        /\ Unwrap(out[i]).headers = ResponseHeader(StrTextPlain, 3)

\* the request connection i's client sent, whole, is a GET over HTTP/1.1 on
\* one of the routes that touch no file: /, /echo/.., /user-agent
SentStatelessGet(i) ==
    LET toks == split_whitespace(RequestLine(RequestParts(ReadBuffer(req[i]))))
    IN  /\ Len(toks) = 3
        /\ toks[1] = TokGET
        /\ toks[3] = TokV11
        /\ \/ toks[2] \in {PathRoot, PathUserAgent}
           \/ StartsWith(toks[2], PrefixEcho)

\* the bytes written to connection i
Written(i) == IF IsSome(out[i]) THEN Wire(Unwrap(out[i])) ELSE <<>>

(***************************************************************************)
(* C14: the bytes answered to GET /, GET /echo/.. and GET /user-agent      *)
(* depend on the bytes of that request only: two clients that sent the     *)
(* same request and waited until the server was done with it got the same  *)
(* bytes, whatever was handled before, between or beside them, file        *)
(* writes included.                                                        *)
(***************************************************************************)
C14_SameRequestSameBytes ==
    \A i, j \in Conns :
        (SentStatelessGet(i) /\ req[j] = req[i] /\ Served(i) /\ Served(j))
        => Written(i) = Written(j)

\* the request line as the task takes it from the buffer
SentLine(i) == RequestLine(RequestParts(ReadBuffer(Received(i))))

\* the token of a parsed method, of a parsed version
TokenOfMethod(method) ==
    CASE method = "GET" -> TokGET
      [] method = "POST" -> TokPOST
      [] method = "PUT" -> TokPUT
      [] method = "DELETE" -> TokDELETE
      [] OTHER -> <<>>

TokenOfVersion(version) ==
    CASE version = "V1_0" -> TokV10
      [] version = "V1_1" -> TokV11
      [] OTHER -> <<>>

(***************************************************************************)
(* C15: parse_request_line succeeds exactly on the lines that split on     *)
(* whitespace into 3 tokens, the first one of GET, POST, PUT, DELETE in    *)
(* upper case, the third one of HTTP/1.0, HTTP/1.1; the method and version *)
(* returned map back to those tokens and the path returned is the second   *)
(* token, unchanged.                                                       *)
(***************************************************************************)
C15_ParseRoundTrips ==
    \A i \in Conns :
        Handled(i)
        => LET r == parse_request_line(SentLine(i))
               toks == SentTokens(i)
           IN  /\ IsSome(r) <=> ~ BadRequestLine(i)
               /\ (task[i] # NoTask) <=> IsSome(r)
               /\ IsSome(r)
                  => /\ TokenOfMethod(Unwrap(r).method) = toks[1]
                     /\ Unwrap(r).path = toks[2]
                     /\ TokenOfVersion(Unwrap(r).version) = toks[3]
                     /\ task[i].method = Unwrap(r).method
                     /\ task[i].path = toks[2]
                     /\ task[i].version = Unwrap(r).version

\* the line "DELETE /a%20b/../c?q=1 HTTP/1.1" was parsed: its path is kept
\* as sent
C15_Witness ==
    \E i \in Conns :
        /\ Handled(i)
        /\ SentLine(i) = RawOddPath
        /\ task[i].method = "DELETE"
        /\ task[i].version = "V1_1"
        /\ task[i].path = Slice(RawOddPath, 8, Len(RawOddPath) - 9)

\* the six status lines, as bytes
Line200 == <<72, 84, 84, 80, 47, 49, 46, 49, 32, 50, 48, 48, 32, 79, 75, 13,
    10>>
Line201 == <<72, 84, 84, 80, 47, 49, 46, 49, 32, 50, 48, 49, 32, 67, 114,
    101, 97, 116, 101, 100, 13, 10>>
Line400 == <<72, 84, 84, 80, 47, 49, 46, 49, 32, 52, 48, 48, 32, 66, 97,
    100, 32, 82, 101, 113, 117, 101, 115, 116, 13, 10>>
Line404 == <<72, 84, 84, 80, 47, 49, 46, 49, 32, 52, 48, 52, 32, 78, 111,
    116, 32, 70, 111, 117, 110, 100, 13, 10>>
Line409 == <<72, 84, 84, 80, 47, 49, 46, 49, 32, 52, 48, 57, 32, 67, 111,
    110, 102, 108, 105, 99, 116, 13, 10>>
Line500 == <<72, 84, 84, 80, 47, 49, 46, 49, 32, 53, 48, 48, 32, 73, 110,
    116, 101, 114, 110, 97, 108, 32, 83, 101, 114, 118, 101, 114, 32, 69,
    114, 114, 111, 114, 13, 10>>

StatusLineOf(code) ==
    CASE code = 200 -> Line200
      [] code = 201 -> Line201
      [] code = 400 -> Line400
      [] code = 404 -> Line404
      [] code = 409 -> Line409
      [] code = 500 -> Line500
      [] OTHER -> <<>>

\* connection i sent a POST on a path under /files/
SentFilePost(i) ==
    /\ ~ BadRequestLine(i)
    /\ SentMethod(i) = TokPOST
    /\ StartsWith(SentPath(i), PrefixFiles)

(***************************************************************************)
(* C16: every response written starts with one of six status lines, 200    *)
(* OK, 201 Created, 400 Bad Request, 404 Not Found, 409 Conflict, 500      *)
(* Internal Server Error; 201 is written only to a POST /files/.. whose    *)
(* task created the blob, 409 and 500 only to a POST /files/...            *)
(***************************************************************************)
C16_SixStatusLines ==
    \A i \in Conns :
        IsSome(out[i])
        => LET r == Unwrap(out[i])
           IN  /\ r.code \in {200, 201, 400, 404, 409, 500}
               /\ StartsWith(Wire(r), StatusLineOf(r.code))
               /\ r.code = 201
                  => /\ SentFilePost(i)
                     /\ created[i]
                     /\ Exists(fs, FilePath(SentPath(i)))
               /\ r.code \in {409, 500} => SentFilePost(i)

\* a POST /files/f was answered 500 after File::create_new failed
C16_Witness ==
    \E i \in Conns :
        /\ Answered(i, 500)
        /\ SentFilePost(i)
        /\ ioerr[i] = "PermissionDenied"
        /\ Wire(Unwrap(out[i])) = Line500 \o CLRF \o MsgCreateFailed

\* the request names application/octet-stream in its first Content-Type line
SentOctetStream(i) ==
    LET ct == FirstValue(SentHeaderLines(i), KeyContentType)
    IN  IsSome(ct) /\ to_lowercase(Unwrap(ct)) = StrOctetStream

\* the target of connection i was there before its task created anything
TargetExisted(i) == Exists(fs, FilePath(SentPath(i))) /\ ~ created[i]

(***************************************************************************)
(* C17: the file-write handler checks the content type, then the target,   *)
(* then the body, and answers with the first check that fails: 400 for a   *)
(* wrong or missing content type, 409 for an existing target, 400 and no   *)
(* file for a request without an empty line; a request with an empty line  *)
(* and nothing after it is answered 201 and its blob is empty.             *)
(***************************************************************************)
C17_PreconditionOrder ==
    \A i \in Conns :
        (pc[i] = "done" /\ SentVersion(i, TokV11) /\ SentFilePost(i))
        => IF ~ SentOctetStream(i)
               THEN Answered(i, 400) /\ ~ created[i]
           ELSE IF TargetExisted(i)
               THEN Answered(i, 409)
           ELSE IF ~ IsSome(ClientBody(Received(i)))
               THEN /\ Answered(i, 400)
                    /\ ~ Exists(fs, FilePath(SentPath(i)))
           ELSE ioerr[i] = "none"
                => /\ Answered(i, 201)
                   /\ Exists(fs, FilePath(SentPath(i)))
                   /\ ClientBody(Received(i)) = Some(<<>>)
                      => Entry(fs, FilePath(SentPath(i))).data = <<>>

\* the recognized header names, each with its key in lower case
HeaderNames ==
    {<<"UserAgent", KeyUserAgent>>, <<"Host", KeyHost>>,
     <<"Accept", KeyAccept>>, <<"ContentType", KeyContentType>>,
     <<"ContentLength", KeyContentLength>>}

(***************************************************************************)
(* C18: header lookup returns the first occurrence: for every recognized   *)
(* header name, get_header_value is the trimmed text after the first ": "  *)
(* of the earliest header line whose key is that name in any case, and     *)
(* none when there is no such line; lines without ": " and lines with      *)
(* another key change nothing.  Content-Type: text/plain followed by       *)
(* Content-Type: application/octet-stream is text/plain.                   *)
(***************************************************************************)
C18_FirstHeaderWins ==
    \A i \in Conns :
        (Handled(i) /\ SentVersion(i, TokV11))
        => /\ \A n \in HeaderNames :
                get_header_value(task[i].headers, n[1])
                    = FirstValue(SentHeaderLines(i), n[2])
           /\ SentHeaderLines(i) = <<LineText, LineOctet>>
              => /\ get_content_type(task[i].headers) = Some(TextPlain)
                 /\ ~ is_content_type(task[i].headers, ApplicationOctetStream)

\* of the lines "User-Agent:abc", "garbage", "User-Agent: second" and
\* "User-Agent: xyz" the third gave the value
C18_Witness ==
    \E i \in Conns :
        /\ Handled(i)
        /\ SentHeaderLines(i) =
               <<LineNoSpace, LineNoColon, LineUserAgent2, LineUserAgent>>
        /\ get_header_value(task[i].headers, "UserAgent")
               = Some(<<115, 101, 99, 111, 110, 100>>)
        /\ pc[i] = "done"
        /\ Unwrap(out[i]).body = <<115, 101, 99, 111, 110, 100>>

\* s is a prefix of t
IsPrefix(s, t) == Len(s) <= Len(t) /\ s = SubSeq(t, 1, Len(s))

\* the connections whose File::create_new made path p
Creators(p) == {i \in Conns : created[i] /\ Target(i) = p}

(***************************************************************************)
(* C19: under every interleaving at most one POST per path is answered     *)
(* 201 and the blob then holds the body of that request: each blob has one *)
(* creator, holds at any time a prefix of the body its creator was handed  *)
(* and, once the creator is answered 201, all of it.                       *)
(***************************************************************************)
C19_OneWriterPerPath ==
    /\ \A i, j \in Conns :
         (/\ i # j
          /\ Answered(i, 201) /\ IsFilePost(i)
          /\ Answered(j, 201) /\ IsFilePost(j))
         => task[i].file_path # task[j].file_path
    /\ \A p \in DOMAIN fs \ DOMAIN InitialFs :
         /\ Cardinality(Creators(p)) = 1
         /\ \A i \in Creators(p) :
              /\ IsPrefix(fs[p].data, Unwrap(task[i].body))
              /\ Answered(i, 201) => fs[p].data = Unwrap(task[i].body)
    /\ \A i \in Conns :
         (Answered(i, 201) /\ IsFilePost(i)) => i \in Creators(Target(i))

\* two POSTs to f with different bodies both passed the existence check;
\* one was answered 201 and the blob holds its body, the other 500
C19_Witness ==
    \E i, j \in Conns :
        /\ i # j
        /\ IsFilePost(i) /\ IsFilePost(j)
        /\ task[i].file_path = task[j].file_path
        /\ task[i].body # task[j].body
        /\ Answered(i, 201)
        /\ Answered(j, 500) /\ ioerr[j] = "AlreadyExists"
        /\ Entry(fs, task[i].file_path).data = Unwrap(task[i].body)

\* the elements of a sequence
Range(s) == {s[k] : k \in 1..Len(s)}

(***************************************************************************)
(* C20: the zero fill of the read buffer beyond the bytes received is in   *)
(* no part of the parsed request: for a request that holds no zero byte,   *)
(* there is none in the request line, in a stored header value, in the     *)
(* body handed to the handler or in a blob written, whether the request    *)
(* holds an empty line or not.                                             *)
(***************************************************************************)
C20_ZeroFillNeverParsed ==
    \A i \in Conns :
        (Handled(i) /\ 0 \notin Range(Received(i)))
        => /\ 0 \notin Range(SentLine(i))
           /\ \A k \in 1..Len(task[i].headers) :
                0 \notin Range(task[i].headers[k][2])
           /\ IsSome(task[i].body) => 0 \notin Range(Unwrap(task[i].body))
           /\ created[i] => 0 \notin Range(Entry(fs, task[i].file_path).data)

=============================================================================
